---- MODULE Spec2Model ----
(***************************************************************************)
(* Identity Risk Intelligence engine of portal.be4breach:                  *)
(*   backend/app/identity/graph_engine.py       (IdentityGraph,            *)
(*                                               EnhancedRiskEngine)       *)
(*   backend/app/identity/risk_engine.py        (IdentityRiskEngine)       *)
(*   backend/app/identity/compliance_engine.py  (ComplianceEngine)         *)
(*   backend/app/identity/remediation_engine.py (RemediationEngine)        *)
(*                                                                         *)
(* Conventions.                                                            *)
(*   - Python str is a TLA+ string; lower(), `in` and startswith are       *)
(*     computed character by character.                                    *)
(*   - Python None is the string None where the field is Optional[str];    *)
(*     Optional[datetime] is a sequence of length 0 (None) or 1.           *)
(*   - a datetime is a whole number of days; (now - t).days is now - t.    *)
(*   - edge weights and role weights are in thousandths (0.8 is 800).      *)
(*   - a dict is a function; a dict whose iteration order is used is a     *)
(*     sequence of entries in insertion order.                             *)
(***************************************************************************)
EXTENDS Integers, Sequences, FiniteSets, TLC

VARIABLES identities, graph, phase, last, connector, tasks, store, service, requests, world

vars == <<identities, graph, phase, last, connector, tasks, store, service, requests, world>>

\* the graph and scoring engines use no connector, no store and no service
NoSync ==
    /\ connector = <<>>
    /\ tasks = <<>>
    /\ store = <<>>
    /\ service = [pc |-> "off"]
    /\ requests = <<>>
    /\ world = <<>>

(***************************************************************************)
(* Bounds of the model.                                                    *)
(***************************************************************************)
MaxIds == 3
MaxCrowd == 6
MaxDepthArg == 4
MaxScoreIds == 2
MaxTeam == 20
MaxFleet == 32

(***************************************************************************)
(* Python string primitives.                                               *)
(***************************************************************************)
UpperChars == <<"A","B","C","D","E","F","G","H","I","J","K","L","M",
                "N","O","P","Q","R","S","T","U","V","W","X","Y","Z">>
LowerChars == <<"a","b","c","d","e","f","g","h","i","j","k","l","m",
                "n","o","p","q","r","s","t","u","v","w","x","y","z">>

LowerChar(c) ==
    IF \E i \in 1..Len(UpperChars) : UpperChars[i] = c
    THEN LowerChars[CHOOSE i \in 1..Len(UpperChars) : UpperChars[i] = c]
    ELSE c

\* Python s.lower(), on the two halves of s
RECURSIVE lower(_)
lower(s) ==
    IF Len(s) = 0 THEN ""
    ELSE IF Len(s) = 1 THEN LowerChar(s)
    ELSE lower(SubSeq(s, 1, Len(s) \div 2)) \o lower(SubSeq(s, Len(s) \div 2 + 1, Len(s)))

UpperChar(c) ==
    IF \E i \in 1..Len(LowerChars) : LowerChars[i] = c
    THEN UpperChars[CHOOSE i \in 1..Len(LowerChars) : LowerChars[i] = c]
    ELSE c

\* Python s.upper(), on the two halves of s
RECURSIVE upper(_)
upper(s) ==
    IF Len(s) = 0 THEN ""
    ELSE IF Len(s) = 1 THEN UpperChar(s)
    ELSE upper(SubSeq(s, 1, Len(s) \div 2)) \o upper(SubSeq(s, Len(s) \div 2 + 1, Len(s)))

\* Python sep.join(ss)
RECURSIVE Join(_, _)
Join(sep, ss) ==
    IF Len(ss) = 0 THEN ""
    ELSE IF Len(ss) = 1 THEN ss[1]
    ELSE Join(sep, SubSeq(ss, 1, Len(ss) \div 2)) \o sep
         \o Join(sep, SubSeq(ss, Len(ss) \div 2 + 1, Len(ss)))

\* Python `sub in s`
Contains(sub, s) ==
    \E i \in 1..(Len(s) - Len(sub) + 1) : SubSeq(s, i, i + Len(sub) - 1) = sub

\* Python s.startswith(p)
StartsWith(s, p) == Len(s) >= Len(p) /\ SubSeq(s, 1, Len(p)) = p

None == "None"

(***************************************************************************)
(* Sequence helpers (Python loops and comprehensions).                     *)
(***************************************************************************)
\* the concatenation of the sequences of ss, in order
RECURSIVE Flatten(_)
Flatten(ss) ==
    IF Len(ss) = 0 THEN <<>>
    ELSE IF Len(ss) = 1 THEN ss[1]
    ELSE Flatten(SubSeq(ss, 1, Len(ss) \div 2))
         \o Flatten(SubSeq(ss, Len(ss) \div 2 + 1, Len(ss)))

Range(s) == {s[i] : i \in 1..Len(s)}

Min(a, b) == IF a < b THEN a ELSE b

\* Python round(): to the nearest integer, a tie to the even one; n/d >= 0
RoundHalfEven(n, d) ==
    LET q == n \div d
        r == n % d
    IN  IF 2 * r < d THEN q
        ELSE IF 2 * r > d THEN q + 1
        ELSE IF q % 2 = 0 THEN q ELSE q + 1

(***************************************************************************)
(* Python floats: IEEE 754 binary64 values >= 0, every operation rounded   *)
(* to the nearest value, a tie to the even one.  A natural number is the   *)
(* sequence of its digits in base 2^15, lowest first, without leading      *)
(* zeros; a float is m * 2^e with m = 0 or 2^52 <= m < 2^53.               *)
(***************************************************************************)
NatDigit(n, i) == IF i <= Len(n) THEN n[i] ELSE 0

RECURSIVE NatTrim(_)
NatTrim(n) ==
    IF n # <<>> /\ n[Len(n)] = 0 THEN NatTrim(SubSeq(n, 1, Len(n) - 1)) ELSE n

\* 0 <= k < 2^31
NatOfInt(k) == NatTrim(<<k % 32768, (k \div 32768) % 32768, k \div 1073741824>>)
IntOfNat(n) == NatDigit(n, 1) + 32768 * NatDigit(n, 2) + 1073741824 * NatDigit(n, 3)

RECURSIVE NatAddFrom(_, _, _, _)
NatAddFrom(a, b, i, carry) ==
    IF i > Len(a) /\ i > Len(b) THEN (IF carry = 0 THEN <<>> ELSE <<carry>>)
    ELSE <<(NatDigit(a, i) + NatDigit(b, i) + carry) % 32768>>
         \o NatAddFrom(a, b, i + 1, (NatDigit(a, i) + NatDigit(b, i) + carry) \div 32768)

NatAdd(a, b) == NatAddFrom(a, b, 1, 0)

\* a - b for a >= b
RECURSIVE NatSubFrom(_, _, _, _)
NatSubFrom(a, b, i, borrow) ==
    IF i > Len(a) THEN <<>>
    ELSE <<(a[i] - NatDigit(b, i) - borrow) % 32768>>
         \o NatSubFrom(a, b, i + 1, IF a[i] - NatDigit(b, i) - borrow < 0 THEN 1 ELSE 0)

NatSub(a, b) == NatTrim(NatSubFrom(a, b, 1, 0))

\* a * d for a digit d
RECURSIVE NatTimesFrom(_, _, _, _)
NatTimesFrom(a, d, i, carry) ==
    IF i > Len(a) THEN (IF carry = 0 THEN <<>> ELSE <<carry>>)
    ELSE <<(a[i] * d + carry) % 32768>>
         \o NatTimesFrom(a, d, i + 1, (a[i] * d + carry) \div 32768)

NatTimes(a, d) == IF d = 0 THEN <<>> ELSE NatTimesFrom(a, d, 1, 0)

\* a * 2^(15 * k)
NatShiftDigits(a, k) == IF a = <<>> THEN <<>> ELSE [i \in 1..k |-> 0] \o a

RECURSIVE NatMulFrom(_, _, _)
NatMulFrom(a, b, j) ==
    IF j > Len(b) THEN <<>>
    ELSE NatAdd(NatShiftDigits(NatTimes(a, b[j]), j - 1), NatMulFrom(a, b, j + 1))

NatMul(a, b) == NatMulFrom(a, b, 1)

\* a \div d and a % d for 0 < d < 2^16, from the highest digit down
RECURSIVE NatDivFrom(_, _, _, _, _)
NatDivFrom(a, d, i, rem, q) ==
    IF i = 0 THEN [q |-> NatTrim(q), r |-> rem]
    ELSE NatDivFrom(a, d, i - 1, (rem * 32768 + a[i]) % d,
                    <<(rem * 32768 + a[i]) \div d>> \o q)

NatDivMod(a, d) == NatDivFrom(a, d, Len(a), 0, <<>>)

RECURSIVE BitsOf(_)
BitsOf(x) == IF x = 0 THEN 0 ELSE 1 + BitsOf(x \div 2)

NatBits(n) == IF n = <<>> THEN 0 ELSE 15 * (Len(n) - 1) + BitsOf(n[Len(n)])
NatOdd(n) == n # <<>> /\ n[1] % 2 = 1

\* n * 2^s
NatShiftLeft(n, s) == NatShiftDigits(NatTimes(n, 2 ^ (s % 15)), s \div 15)

\* n \div 2^s, and whether a bit that is 1 was dropped
NatShiftKept(qr, dropped) ==
    [q |-> qr.q, lost |-> qr.r # 0 \/ \E i \in 1..Len(dropped) : dropped[i] # 0]

NatShiftRight(n, s) ==
    NatShiftKept(NatDivMod(SubSeq(n, s \div 15 + 1, Len(n)), 2 ^ (s % 15)),
                 SubSeq(n, 1, Min(s \div 15, Len(n))))

\* q and guard are n \div 2^s and the first bit dropped
NatRoundUp(q, guard, lost) ==
    IF guard /\ (lost \/ NatOdd(q)) THEN NatAdd(q, <<1>>) ELSE q

\* half is n \div 2^(s-1)
NatRoundHalf(half, sticky) ==
    NatRoundUp(NatDivMod(half.q, 2).q, NatOdd(half.q), half.lost \/ sticky)

\* n / 2^s to the nearest natural number, a tie to the even one; sticky
\* says that n stands for a little more than n
NatRoundShift(n, s, sticky) ==
    IF s = 0 THEN n ELSE NatRoundHalf(NatShiftRight(n, s - 1), sticky)

FloatZero == [m |-> <<>>, e |-> 0]

\* a mantissa that rounding carried to 2^53
FloatCarried(m, e) ==
    IF NatBits(m) = 54 THEN [m |-> NatShiftRight(m, 1).q, e |-> e + 1]
    ELSE [m |-> m, e |-> e]

FloatOfBits(n, e, sticky, bits) ==
    IF bits = 0 THEN FloatZero
    ELSE IF bits <= 53 THEN [m |-> NatShiftLeft(n, 53 - bits), e |-> e - (53 - bits)]
    ELSE FloatCarried(NatRoundShift(n, bits - 53, sticky), e + bits - 53)

\* the float nearest to n * 2^e
FloatOf(n, e, sticky) == FloatOfBits(n, e, sticky, NatBits(n))

\* float(k)
FloatOfInt(k) == FloatOf(NatOfInt(k), 0, FALSE)

FloatSum(a, b, e) ==
    FloatOf(NatAdd(NatShiftLeft(a.m, a.e - e), NatShiftLeft(b.m, b.e - e)), e, FALSE)

\* a + b
FloatAdd(a, b) ==
    IF a.m = <<>> THEN b ELSE IF b.m = <<>> THEN a ELSE FloatSum(a, b, Min(a.e, b.e))

FloatDifference(a, b, e) ==
    FloatOf(NatSub(NatShiftLeft(a.m, a.e - e), NatShiftLeft(b.m, b.e - e)), e, FALSE)

\* a - b for a >= b
FloatSub(a, b) == IF b.m = <<>> THEN a ELSE FloatDifference(a, b, Min(a.e, b.e))

\* a * b
FloatMul(a, b) == FloatOf(NatMul(a.m, b.m), a.e + b.e, FALSE)

FloatOfQuotient(qr, e) == FloatOf(qr.q, e, qr.r # 0)

\* a / d for an integer 0 < d < 2^16
FloatDiv(a, d) == FloatOfQuotient(NatDivMod(NatShiftLeft(a.m, 30), d), a.e - 30)

NatLess(a, b) ==
    \/ Len(a) < Len(b)
    \/ /\ Len(a) = Len(b)
       /\ \E i \in 1..Len(a) : a[i] < b[i] /\ \A j \in (i + 1)..Len(a) : a[j] = b[j]

\* a < b
FloatLess(a, b) ==
    IF b.m = <<>> THEN FALSE
    ELSE IF a.m = <<>> THEN TRUE
    ELSE a.e < b.e \/ (a.e = b.e /\ NatLess(a.m, b.m))

\* int(a), below 2^31
FloatTrunc(a) ==
    IF a.e >= 0 THEN IntOfNat(NatShiftLeft(a.m, a.e))
    ELSE IntOfNat(NatShiftRight(a.m, -a.e).q)

\* round(a, ndigits) as a whole number of units of 10^-ndigits: the decimal
\* nearest to the exact value of a, a tie to the even one
FloatRound(a, ndigits) ==
    IF a.e >= 0 THEN IntOfNat(NatShiftLeft(NatTimes(a.m, 10 ^ ndigits), a.e))
    ELSE IntOfNat(NatRoundShift(NatTimes(a.m, 10 ^ ndigits), -a.e, FALSE))

\* the float of the decimal literal n/d
FloatLiteral(n, d) == FloatDiv(FloatOfInt(n), d)

\* An operator's argument is evaluated where it is first used.  Computed(v)
\* evaluates v on the spot, as a statement of the code computes its value
\* before the next statement runs.
Computed(v) == v = v

\* Python any(P(x) for x in s)
AnyIn(s, P(_)) == \E i \in 1..Len(s) : P(s[i])

\* dict.get(k, [])
DictGet(d, k) == IF k \in DOMAIN d THEN d[k] ELSE <<>>

(***************************************************************************)
(* Role sensitivity model.                                                 *)
(***************************************************************************)
PERMISSION_WEIGHTS ==
    << <<"AdministratorAccess", 1000>>, <<"SuperAdmin", 1000>>,
       <<"Owner", 950>>, <<"GlobalAdmin", 950>>, <<"root", 1000>>,
       <<"admin", 900>>, <<"Contributor", 600>>, <<"Editor", 600>>,
       <<"ReadWrite", 500>>, <<"Developer", 400>>, <<"Reader", 200>>,
       <<"Viewer", 100>> >>

_get_role_weight(role) ==
    LET r == lower(role)
        hits == {i \in 1..Len(PERMISSION_WEIGHTS) :
                    Contains(lower(PERMISSION_WEIGHTS[i][1]), r)}
    IN  IF hits # {}
        THEN PERMISSION_WEIGHTS[CHOOSE i \in hits : \A j \in hits : i <= j][2]
        ELSE IF Contains("admin", r) THEN 900
        ELSE IF Contains("write", r) \/ Contains("manage", r) THEN 500
        ELSE IF Contains("read", r) \/ Contains("view", r) THEN 150
        ELSE 300

\* any("admin" in r.lower() for r in roles)
HasAdminRole(roles) == AnyIn(roles, LAMBDA r : Contains("admin", lower(r)))

\* node.identity.provider if source == DEMO else source.value
SourceName(i) == IF i.source = "demo" THEN i.provider ELSE i.source

(***************************************************************************)
(* IdentityGraph construction.                                             *)
(***************************************************************************)
CROSS_PROVIDER_WEIGHT == 800
LINKED_ACCOUNT_WEIGHT == 900
MEMBER_OF_WEIGHT == 500
ROLE_EDGE_THRESHOLD == 700

\* adjacency[k].append(e) on a defaultdict(list)
AdjAppend(adj, k, e) ==
    IF k \in DOMAIN adj THEN [adj EXCEPT ![k] = Append(@, e)]
    ELSE adj @@ (k :> <<e>>)

OneWayEdge(adj, source, target, relationship, weight) ==
    AdjAppend(adj, source, <<target, relationship, weight>>)

_add_edge(adj, source, target, relationship, weight) ==
    AdjAppend(AdjAppend(adj, source, <<target, relationship, weight>>),
              target, <<source, relationship, weight>>)

\* the _add_edge calls of a build, applied in order (first half, then second)
RECURSIVE AddEdges(_, _)
AddEdges(adj, calls) ==
    IF Len(calls) = 0 THEN adj
    ELSE IF Len(calls) = 1
         THEN _add_edge(adj, calls[1][1], calls[1][2], calls[1][3], calls[1][4])
    ELSE LET first == AddEdges(adj, SubSeq(calls, 1, Len(calls) \div 2))
         IN  IF Computed(first)
             THEN AddEdges(first, SubSeq(calls, Len(calls) \div 2 + 1, Len(calls)))
             ELSE first

\* self.nodes[identity.id] = node, for every identity (later entries win)
BuildNodes(nodes, ids) ==
    LET new == {ids[k].id : k \in 1..Len(ids)}
        lastOf(n) == CHOOSE k \in 1..Len(ids) :
                        /\ ids[k].id = n
                        /\ \A j \in 1..Len(ids) : ids[j].id = n => j <= k
    IN  [n \in (DOMAIN nodes) \cup new |->
            IF n \in new THEN ids[lastOf(n)] ELSE nodes[n]]

\* self._email_to_ids[email].append(identity.id)
IndexAppend(index, identity) ==
    LET email == lower(identity.email)
        at == {k \in 1..Len(index) : index[k].email = email}
    IN  IF at = {}
        THEN Append(index, [email |-> email, ids |-> <<identity.id>>])
        ELSE [index EXCEPT ![CHOOSE k \in at : TRUE].ids = Append(@, identity.id)]

\* for identity in identities: ..., in order (first half, then second)
RECURSIVE BuildEmailIndex(_, _)
BuildEmailIndex(index, ids) ==
    IF Len(ids) = 0 THEN index
    ELSE IF Len(ids) = 1 THEN IndexAppend(index, ids[1])
    ELSE LET first == BuildEmailIndex(index, SubSeq(ids, 1, Len(ids) \div 2))
         IN  IF Computed(first)
             THEN BuildEmailIndex(first, SubSeq(ids, Len(ids) \div 2 + 1, Len(ids)))
             ELSE first

CrossProviderCalls(index) ==
    Flatten([e \in 1..Len(index) |->
        LET ids == index[e].ids IN
        IF Len(ids) > 1
        THEN Flatten([i \in 1..Len(ids) |->
                [j \in 1..(Len(ids) - i) |->
                    <<ids[i], ids[i + j], "cross_provider", CROSS_PROVIDER_WEIGHT>>]])
        ELSE <<>>])

LinkedAccountCalls(nodes, ids) ==
    Flatten([k \in 1..Len(ids) |->
        LET linked == SelectSeq(ids[k].linkedAccounts, LAMBDA l : l \in DOMAIN nodes) IN
        [j \in 1..Len(linked) |->
            <<ids[k].id, linked[j], "linked_account", LINKED_ACCOUNT_WEIGHT>>]])

GroupCalls(ids) ==
    Flatten([k \in 1..Len(ids) |->
        [j \in 1..Len(ids[k].groupMembership) |->
            <<ids[k].id, "vgroup:" \o ids[k].groupMembership[j],
              "member_of", MEMBER_OF_WEIGHT>>]])

RoleCalls(ids) ==
    Flatten([k \in 1..Len(ids) |->
        LET high == SelectSeq(ids[k].roles,
                        LAMBDA r : _get_role_weight(r) >= ROLE_EDGE_THRESHOLD) IN
        [j \in 1..Len(high) |->
            <<ids[k].id, "vrole:" \o high[j], "has_role",
              _get_role_weight(high[j]) \div 2>>]])

\* the containers IdentityGraph.__init__ creates before it builds
NewNodes == <<>>
NewAdjacency == <<>>
StaleEmailToIds == graph._email_to_ids
NewEmailToIds == <<>>

_build_graph(nodes0, adjacency0, index0, ids) ==
    LET nodes == BuildNodes(nodes0, ids)
        index == BuildEmailIndex(index0, ids)
        calls == CrossProviderCalls(index) \o LinkedAccountCalls(nodes, ids)
                 \o GroupCalls(ids) \o RoleCalls(ids)
    IN  [nodes |-> nodes,
         adjacency |-> AddEdges(adjacency0, calls),
         _email_to_ids |-> index]

IdentityGraph(ids) == _build_graph(NewNodes, NewAdjacency, NewEmailToIds, ids)

\* the node set and the edge set (endpoints, relationship, weight) of a graph
NodeSet(g) == DOMAIN g.nodes
EdgeSet(g) ==
    UNION {{<<a, g.adjacency[a][k][1], g.adjacency[a][k][2], g.adjacency[a][k][3]>> :
               k \in 1..Len(g.adjacency[a])} : a \in DOMAIN g.adjacency}

(***************************************************************************)
(* Traversal: get_connected_identities (breadth-first search).             *)
(***************************************************************************)
IsVirtual(n) == StartsWith(n, "vgroup:") \/ StartsWith(n, "vrole:")

\* `if depth < max_depth` guarding the expansion of a dequeued node
ExpandsLeq(depth, max_depth) == depth <= max_depth
Expands(depth, max_depth) == depth < max_depth

\* the queue entry appended for a newly visited neighbour
QueueEntry(neighbor, depth, via, rel) ==
    IF IsVirtual(neighbor) THEN <<neighbor, depth, via>>
    ELSE <<neighbor, depth + 1, rel>>

\* for neighbor, rel, weight in adjacency.get(current, []): ...
RECURSIVE ScanNeighbors(_, _, _, _, _)
ScanNeighbors(nbrs, depth, via, visited, queue) ==
    IF Computed(queue) /\ nbrs = <<>> THEN [visited |-> visited, queue |-> queue]
    ELSE LET neighbor == Head(nbrs)[1]
             rel == Head(nbrs)[2]
         IN  IF neighbor \in visited
             THEN ScanNeighbors(Tail(nbrs), depth, via, visited, queue)
             ELSE ScanNeighbors(Tail(nbrs), depth, via, visited \cup {neighbor},
                                Append(queue, QueueEntry(neighbor, depth, via, rel)))

ConnEntry(g, current, depth, via) ==
    [id |-> current,
     email |-> g.nodes[current].email,
     source |-> SourceName(g.nodes[current]),
     depth |-> depth,
     via |-> via,
     riskScore |-> g.nodes[current].riskScore]

\* while queue: ...
RECURSIVE BfsLoop(_, _, _, _, _)
BfsLoop(g, max_depth, queue, visited, result) ==
    IF Computed(result) /\ queue = <<>> THEN result
    ELSE LET current == Head(queue)[1]
             depth == Head(queue)[2]
             via == Head(queue)[3]
             result2 == IF depth > 0 /\ current \in DOMAIN g.nodes
                        THEN Append(result, ConnEntry(g, current, depth, via))
                        ELSE result
             scan == IF Expands(depth, max_depth)
                     THEN ScanNeighbors(DictGet(g.adjacency, current), depth, via,
                                        visited, Tail(queue))
                     ELSE [visited |-> visited, queue |-> Tail(queue)]
         IN  BfsLoop(g, max_depth, scan.queue, scan.visited, result2)

\* `if identity_id not in self.nodes: return []`
NeverUnknown(g, identity_id) == FALSE
NotInNodes(g, identity_id) == identity_id \notin DOMAIN g.nodes

get_connected_identities(g, identity_id, max_depth) ==
    IF NotInNodes(g, identity_id) THEN <<>>
    ELSE BfsLoop(g, max_depth, << <<identity_id, 0, "origin">> >>, {identity_id}, <<>>)

(***************************************************************************)
(* Attack paths: find_admin_takeover_paths (depth-first search).           *)
(*                                                                         *)
(* The code threads one mutable visited set through the recursion, adding  *)
(* current before the loop over its neighbours and discarding it after.    *)
(* current is never in visited on entry (the caller tests it), so the set  *)
(* is the same after a call as before it and is passed by value here.      *)
(***************************************************************************)
ADMIN_PATH_MAX_DEPTH == 4

Hop(g, neighbor, rel, weight) ==
    [id |-> neighbor, email |-> g.nodes[neighbor].email,
     relationship |-> rel, weight |-> weight]

RECURSIVE _dfs_paths(_, _, _, _, _, _)
_dfs_paths(g, current, targets, path, visited, max_depth) ==
    IF Len(path) > max_depth THEN <<>>
    ELSE IF current \in targets /\ Len(path) > 0 THEN <<path>>
    ELSE LET nbrs == DictGet(g.adjacency, current)
             seen == visited \cup {current}
         IN  \* the paths found below each neighbour, in adjacency order
             Flatten([k \in 1..Len(nbrs) |->
                 IF nbrs[k][1] \notin seen /\ nbrs[k][1] \in DOMAIN g.nodes
                 THEN _dfs_paths(g, nbrs[k][1], targets,
                                 Append(path, Hop(g, nbrs[k][1], nbrs[k][2], nbrs[k][3])),
                                 seen, max_depth)
                 ELSE <<>>])

AdminIds(g) == {nid \in DOMAIN g.nodes : HasAdminRole(g.nodes[nid].roles)}

\* `if start_id in admin_ids: return []`
StartIsAdminNever(g, start_id) == FALSE
StartIsAdmin(g, start_id) == start_id \in AdminIds(g)

find_admin_takeover_paths(g, start_id) ==
    IF start_id \notin DOMAIN g.nodes THEN <<>>
    ELSE IF StartIsAdmin(g, start_id) THEN <<>>
    ELSE _dfs_paths(g, start_id, AdminIds(g), <<>>, {}, ADMIN_PATH_MAX_DEPTH)

(***************************************************************************)
(* calculate_blast_radius.  total_weight, the two multipliers and          *)
(* raw_blast are floats; int() truncates raw_blast * 10.                   *)
(***************************************************************************)
BLAST_MAX_DEPTH == 3
BLAST_CAP == 100

RECURSIVE SumSeq(_)
SumSeq(s) ==
    IF Len(s) = 0 THEN 0
    ELSE IF Len(s) = 1 THEN s[1]
    ELSE SumSeq(SubSeq(s, 1, Len(s) \div 2)) + SumSeq(SubSeq(s, Len(s) \div 2 + 1, Len(s)))

\* min(int(raw_blast * 10), 100)
Uncapped(scaled) == scaled
CapBlast(scaled) == Min(scaled, BLAST_CAP)

\* for conn in connected: total_weight += 1.0 / (conn["depth"] + 1), over the
\* entries at places from..to in order, the first half before the second
RECURSIVE TotalWeight(_, _, _, _)
TotalWeight(connected, from, to, total_weight) ==
    IF from > to THEN total_weight
    ELSE IF from = to
    THEN FloatAdd(total_weight, FloatDiv(FloatOfInt(1), connected[from].depth + 1))
    ELSE LET mid == (from + to) \div 2
             first == TotalWeight(connected, from, mid, total_weight)
         IN  IF Computed(first) THEN TotalWeight(connected, mid + 1, to, first) ELSE first

\* 1.0 + (admin_reachable * 0.3) and 1.0 + (len(affected_sources) * 0.15)
AdminMultiplier(admin_reachable) ==
    FloatAdd(FloatOfInt(1), FloatMul(FloatOfInt(admin_reachable), FloatLiteral(3, 10)))
CrossCloudMultiplier(spread) ==
    FloatAdd(FloatOfInt(1), FloatMul(FloatOfInt(spread), FloatLiteral(15, 100)))

\* raw_blast = total_weight * admin_multiplier * cross_cloud_multiplier, then
\* int(raw_blast * 10)
ScaledBlast(total_weight, admin_multiplier, cross_cloud_multiplier) ==
    LET weighted == FloatMul(total_weight, admin_multiplier)
        raw_blast == FloatMul(weighted, cross_cloud_multiplier)
    IN  IF Computed(<<total_weight, admin_multiplier, cross_cloud_multiplier>>)
           /\ Computed(weighted) /\ Computed(raw_blast)
        THEN FloatTrunc(FloatMul(raw_blast, FloatOfInt(10)))
        ELSE 0

calculate_blast_radius(g, identity_id) ==
    LET connected == get_connected_identities(g, identity_id, BLAST_MAX_DEPTH) IN
    IF Computed(connected) /\ identity_id \notin DOMAIN g.nodes
    THEN [identityId |-> identity_id, blastRadius |-> 0, affectedIdentities |-> 0]
    ELSE LET affected_sources == {connected[k].source : k \in 1..Len(connected)}
             admin_reachable ==
                 Cardinality({k \in 1..Len(connected) :
                                 HasAdminRole(g.nodes[connected[k].id].roles)})
             scaled == ScaledBlast(TotalWeight(connected, 1, Len(connected), FloatZero),
                                   AdminMultiplier(admin_reachable),
                                   CrossCloudMultiplier(Cardinality(affected_sources)))
         IN  [identityId |-> identity_id,
              blastRadius |-> CapBlast(scaled),
              affectedIdentities |-> Len(connected),
              affectedSources |-> affected_sources,
              adminReachable |-> admin_reachable,
              crossCloudSpread |-> Cardinality(affected_sources)]

(***************************************************************************)
(* detect_lateral_movement_paths.                                          *)
(***************************************************************************)
LATERAL_MAX_DEPTH == 4
LATERAL_RISK == 50
CRITICAL_RISK == 80
LATERAL_CAP == 15

\* key=lambda x: (not x["critical"], x["hops"]), compared as Python tuples
HopsOnlyLeq(a, b) == a.hops <= b.hops
LateralKeyLeq(a, b) ==
    LET ka == IF a.critical THEN 0 ELSE 1
        kb == IF b.critical THEN 0 ELSE 1
    IN  ka < kb \/ (ka = kb /\ a.hops <= b.hops)

\* list.sort is stable: x goes after every entry whose key is not greater
RECURSIVE StableInsert(_, _)
StableInsert(sorted, x) ==
    IF sorted = <<>> THEN <<x>>
    ELSE IF LateralKeyLeq(Head(sorted), x)
         THEN <<Head(sorted)>> \o StableInsert(Tail(sorted), x)
         ELSE <<x>> \o sorted

RECURSIVE StableSort(_)
StableSort(s) ==
    IF s = <<>> THEN <<>>
    ELSE StableInsert(StableSort(SubSeq(s, 1, Len(s) - 1)), s[Len(s)])

detect_lateral_movement_paths(g, identity_id) ==
    LET connected == get_connected_identities(g, identity_id, LATERAL_MAX_DEPTH) IN
    IF identity_id \notin DOMAIN g.nodes THEN <<>>
    ELSE LET node == g.nodes[identity_id]
             start_source == SourceName(node)
             hits == SelectSeq(connected,
                        LAMBDA c : c.source # start_source \/ c.riskScore > LATERAL_RISK)
             paths == [k \in 1..Len(hits) |->
                         [from |-> [id |-> identity_id, source |-> start_source,
                                    email |-> node.email],
                          to |-> [id |-> hits[k].id, source |-> hits[k].source,
                                  email |-> hits[k].email],
                          hops |-> hits[k].depth,
                          via |-> hits[k].via,
                          risk |-> hits[k].riskScore,
                          critical |-> (hits[k].riskScore >= CRITICAL_RISK)]]
             sorted == StableSort(paths)
         IN  SubSeq(sorted, 1, Min(Len(sorted), LATERAL_CAP))

(***************************************************************************)
(* get_risk_distribution.                                                  *)
(*                                                                         *)
(* The method iterates self.identities.  The attributes of an              *)
(* IdentityGraph object are the fields of the graph record (the ones       *)
(* __init__ assigns); reading an attribute the object does not have raises *)
(* AttributeError, reported in the field raised of the outcome.            *)
(***************************************************************************)
HasAttr(obj, name) == name \in DOMAIN obj

RiskBucket(riskScore) ==
    IF riskScore >= 80 THEN "Critical"
    ELSE IF riskScore >= 50 THEN "High"
    ELSE IF riskScore >= 20 THEN "Medium"
    ELSE "Low"

get_risk_distribution(g) ==
    IF ~HasAttr(g, "identities")
    THEN [raised |-> "AttributeError", dist |-> <<>>]
    ELSE [raised |-> None,
          dist |-> [b \in {"Critical", "High", "Medium", "Low"} |->
                      Cardinality({k \in 1..Len(g.identities) :
                                      RiskBucket(g.identities[k].riskScore) = b})]]

(***************************************************************************)
(* EnhancedRiskEngine: the identities of the snapshot and the graph built  *)
(* from them.                                                              *)
(***************************************************************************)
TIER_CRITICAL_ADMINS == 3
TIER_CRITICAL_WEIGHT == 900
TIER_HIGH_WEIGHT == 600
TIER_MEDIUM_WEIGHT == 300

\* max((_get_role_weight(r) for r in identity.roles), default=0)
MaxRoleWeight(roles) ==
    LET ws == {_get_role_weight(roles[k]) : k \in 1..Len(roles)} \cup {0}
    IN  CHOOSE w \in ws : \A x \in ws : x <= w

\* `blast["adminReachable"] > 3 or max_weight >= 0.9`
CriticalAtThree(admin_reachable, max_weight) ==
    admin_reachable >= TIER_CRITICAL_ADMINS \/ max_weight >= TIER_CRITICAL_WEIGHT
IsCriticalTier(admin_reachable, max_weight) ==
    admin_reachable > TIER_CRITICAL_ADMINS \/ max_weight >= TIER_CRITICAL_WEIGHT

\* blast["adminReachable"] raises KeyError on the short record that
\* calculate_blast_radius returns for an id that is not in the graph
calculate_privilege_tier(g, identity) ==
    LET max_weight == MaxRoleWeight(identity.roles)
        blast == calculate_blast_radius(g, identity.id)
    IN  IF "adminReachable" \notin DOMAIN blast THEN "KeyError"
        ELSE IF IsCriticalTier(blast.adminReachable, max_weight) THEN "critical"
        ELSE IF blast.adminReachable > 0 \/ max_weight >= TIER_HIGH_WEIGHT THEN "high"
        ELSE IF max_weight >= TIER_MEDIUM_WEIGHT THEN "medium"
        ELSE "low"

(***************************************************************************)
(* get_breach_probability: breadth-first search from all admins at once.   *)
(* distances is the dict of the code, as a function from node id to hops.  *)
(* probability and mfaGapFactor are in tenths.                             *)
(***************************************************************************)
BREACH_MAX_DIST == 4
BREACH_HIGH_RISK_DIST == 2
BREACH_CAP == 98

\* for neighbor, rel, weight in adjacency.get(current, []): ...
RECURSIVE BreachScan(_, _, _, _)
BreachScan(nbrs, dist, distances, queue) ==
    IF Computed(queue) /\ nbrs = <<>> THEN [distances |-> distances, queue |-> queue]
    ELSE LET neighbor == Head(nbrs)[1] IN
         IF neighbor \in DOMAIN distances
         THEN BreachScan(Tail(nbrs), dist, distances, queue)
         ELSE BreachScan(Tail(nbrs), dist, distances @@ (neighbor :> dist + 1),
                         Append(queue, neighbor))

\* while queue: ...
RECURSIVE BreachBfs(_, _, _)
BreachBfs(g, queue, distances) ==
    IF queue = <<>> THEN distances
    ELSE LET current == Head(queue)
             dist == distances[current]
         IN  IF dist >= BREACH_MAX_DIST THEN BreachBfs(g, Tail(queue), distances)
             ELSE LET scan == BreachScan(DictGet(g.adjacency, current), dist,
                                         distances, Tail(queue))
                  IN  BreachBfs(g, scan.queue, scan.distances)

\* `not nid.startswith("v")`
Counted(nid) == ~StartsWith(nid, "v")

\* (high_risk_paths * 15 + total_reachable * 1.5) / n * 10 + mfa_gap * 45
BreachProb(high_risk_paths, total_reachable, n, mfa_gap) ==
    LET paths == FloatAdd(FloatOfInt(high_risk_paths * 15),
                          FloatMul(FloatOfInt(total_reachable), FloatLiteral(15, 10)))
        share == FloatDiv(paths, n)
        reach == FloatMul(share, FloatOfInt(10))
        gap == FloatMul(mfa_gap, FloatOfInt(45))
    IN  IF Computed(paths) /\ Computed(share) /\ Computed(reach) /\ Computed(gap)
        THEN FloatAdd(reach, gap)
        ELSE FloatZero

\* round(min(prob, 98), 1), in tenths
CappedProb(prob) ==
    IF FloatLess(FloatOfInt(BREACH_CAP), prob) THEN BREACH_CAP * 10 ELSE FloatRound(prob, 1)

BreachResult(high_risk_paths, total_reachable, n, mfa_gap) ==
    [probability |-> CappedProb(BreachProb(high_risk_paths, total_reachable, n, mfa_gap)),
     totalPaths |-> total_reachable,
     highRiskPaths |-> high_risk_paths,
     mfaGapFactor |-> FloatRound(FloatMul(mfa_gap, FloatOfInt(100)), 1)]

get_breach_probability(ids, g) ==
    IF Len(ids) = 0 THEN [probability |-> 0, totalPaths |-> 0, highRiskPaths |-> 0]
    ELSE LET admin_ids == SelectSeq([k \in 1..Len(ids) |-> ids[k].id],
                                    LAMBDA nid : HasAdminRole(g.nodes[nid].roles))
             distances == BreachBfs(g, admin_ids, [a \in Range(admin_ids) |-> 0])
             high_risk_paths ==
                 Cardinality({nid \in DOMAIN distances :
                                 /\ distances[nid] \in 1..BREACH_HIGH_RISK_DIST
                                 /\ Counted(nid)})
             total_reachable ==
                 Cardinality({nid \in DOMAIN distances :
                                 distances[nid] > 0 /\ Counted(nid)})
             no_mfa == Cardinality({k \in 1..Len(ids) : ~ids[k].mfaEnabled})
             mfa_gap == FloatDiv(FloatOfInt(no_mfa), Len(ids))
         IN  IF Computed(distances) /\ Computed(mfa_gap)
             THEN BreachResult(high_risk_paths, total_reachable, Len(ids), mfa_gap)
             ELSE BreachResult(0, 0, Len(ids), mfa_gap)

(***************************************************************************)
(* Flat risk engine: IdentityRiskEngine.                                   *)
(***************************************************************************)
\* datetime.now(timezone.utc), in days
UtcNow == 20000

FACTOR_NO_MFA == 30
FACTOR_ADMIN_ROLE == 25
FACTOR_ORPHANED == 20
FACTOR_INACTIVE_30D == 10
FACTOR_INACTIVE_90D == 15
FACTOR_PRIVILEGE_ESCALATION == 20
FACTOR_DUPLICATE_IDENTITY == 10
FACTOR_ROLE_DRIFT == 15
FACTOR_MFA_INCONSISTENCY == 15
FACTOR_UNLINKED_SAAS == 15
FACTOR_EXCESSIVE_GROUPS == 10
FACTOR_PROD_ACCESS == 20
FACTOR_PUBLIC_REPO_ADMIN == 15
FACTOR_STALE_CREDENTIALS == 10
FACTOR_SHARED_ACCOUNT == 20

CLOUD_SOURCES == {"aws", "azure", "gcp"}
SHARED_KEYWORDS == {"svc", "service", "admin", "test", "demo", "temp", "root"}

\* _build_identity_map: the identities of each lower-cased email, in order;
\* identities without an email are left out
RelatedByEmail(ids, email) ==
    SelectSeq(ids, LAMBDA i : i.email # "" /\ lower(i.email) = email)

\* s.split("@")[0]
BeforeAt(s) ==
    LET ats == {k \in 1..Len(s) : SubSeq(s, k, k) = "@"} IN
    IF ats = {} THEN s
    ELSE SubSeq(s, 1, (CHOOSE k \in ats : \A j \in ats : k <= j) - 1)

IsHr(i) == i.source = "hr" \/ (i.source = "demo" /\ i.provider = "hr")
IsCloud(i) == SourceName(i) \in CLOUD_SOURCES

\* (now - last_login).days
DaysInactive(i) == UtcNow - i.lastLogin[1]

MaxOf(S) == CHOOSE x \in S : \A y \in S : y <= x
MinOf(S) == CHOOSE x \in S : \A y \in S : x <= y

\* one factor: the points added to score and the reason appended when it triggers
Factor(triggered, points, reason) ==
    IF triggered THEN [score |-> points, factors |-> <<reason>>]
    ELSE [score |-> 0, factors |-> <<>>]

RiskFactors(ids, identity) ==
    LET email == IF identity.email # "" THEN lower(identity.email) ELSE None
        related == IF identity.email # "" THEN RelatedByEmail(ids, email)
                   ELSE <<identity>>
        has_hr_link == AnyIn(related, IsHr)
        has_login == identity.lastLogin # <<>>
        days == IF has_login THEN DaysInactive(identity) ELSE 0
        cloud_identities == SelectSeq(related, IsCloud)
        role_counts == {Len(cloud_identities[k].roles) : k \in 1..Len(cloud_identities)}
        is_okta == identity.source = "okta"
                   \/ (identity.source = "demo" /\ identity.provider = "okta")
        is_github == identity.source = "github"
                     \/ (identity.source = "demo" /\ identity.provider = "github")
        local == BeforeAt(lower(identity.email))
    IN  << Factor(~identity.mfaEnabled, FACTOR_NO_MFA, "No MFA enabled"),
           Factor(HasAdminRole(identity.roles), FACTOR_ADMIN_ROLE,
                  "Account has administrative privileges"),
           Factor(~has_hr_link /\ ~IsHr(identity), FACTOR_ORPHANED,
                  "Orphaned account (No HR linkage detected)"),
           IF has_login /\ days > 90
           THEN Factor(TRUE, FACTOR_INACTIVE_90D,
                       "Account dormant for " \o ToString(days) \o " days (Critical)")
           ELSE Factor(has_login /\ days > 30, FACTOR_INACTIVE_30D,
                       "Account inactive for " \o ToString(days) \o " days"),
           Factor(Len(related) > 1, FACTOR_DUPLICATE_IDENTITY,
                  "Duplicate identity found across " \o ToString(Len(related))
                      \o " providers"),
           Factor(Cardinality({related[k].mfaEnabled : k \in 1..Len(related)}) > 1,
                  FACTOR_MFA_INCONSISTENCY,
                  "MFA status is inconsistent across providers"),
           Factor(Len(cloud_identities) > 1 /\ MaxOf(role_counts) - MinOf(role_counts) > 2,
                  FACTOR_ROLE_DRIFT,
                  "Potential role drift: significant mismatch in role assignments across clouds"),
           Factor(is_okta /\ ~AnyIn(related, IsCloud), FACTOR_UNLINKED_SAAS,
                  "SaaS identity (Okta) not linked to any cloud IAM provider"),
           Factor(Len(identity.roles) >= 10, FACTOR_PRIVILEGE_ESCALATION,
                  "Suspiciously high number of assigned roles"),
           Factor(Len(identity.groupMembership) > 5, FACTOR_EXCESSIVE_GROUPS,
                  "Excessive group memberships ("
                      \o ToString(Len(identity.groupMembership)) \o ")"),
           Factor(AnyIn(identity.roles, LAMBDA r : Contains("prod", lower(r)))
                      \/ AnyIn(identity.roles, LAMBDA r : Contains("production", lower(r))),
                  FACTOR_PROD_ACCESS,
                  "Direct production environment access detected"),
           Factor(is_github /\ HasAdminRole(identity.roles), FACTOR_PUBLIC_REPO_ADMIN,
                  "Administrative rights on potentially public repositories"),
           Factor(has_login /\ days > 90, FACTOR_STALE_CREDENTIALS,
                  "Stale security credentials (>90 days)"),
           Factor((\E kw \in SHARED_KEYWORDS : Contains(kw, local)) /\ ~identity.mfaEnabled,
                  FACTOR_SHARED_ACCOUNT,
                  "Likely shared or service account with interactive login enabled") >>

_get_risk_level(score) ==
    IF score < 20 THEN "Low"
    ELSE IF score < 50 THEN "Medium"
    ELSE IF score < 80 THEN "High"
    ELSE "Critical"

\* total_risk_score = min(score, 100)
UncappedScore(score) == score
CapScore(score) == Min(score, 100)

calculate_risk_score(ids, identity) ==
    LET steps == RiskFactors(ids, identity)
        score == SumSeq([k \in 1..Len(steps) |-> steps[k].score])
        total_risk_score == CapScore(score)
    IN  [identityId |-> identity.id,
         totalRiskScore |-> total_risk_score,
         riskLevel |-> _get_risk_level(total_risk_score),
         factors |-> Flatten([k \in 1..Len(steps) |-> steps[k].factors])]

(***************************************************************************)
(* Compliance engine: ComplianceEngine.check_identity_compliance.          *)
(* A violation is recorded by its policy and severity; the message and     *)
(* remediation texts are left out.                                         *)
(***************************************************************************)
COMPLIANCE_POLICIES ==
    << [policy |-> "least_privilege", weight |-> 25],
       [policy |-> "zero_trust", weight |-> 20],
       [policy |-> "mfa_enforcement", weight |-> 25],
       [policy |-> "dormant_account", weight |-> 15],
       [policy |-> "separation_of_duties", weight |-> 15] >>

TOXIC_COMBINATIONS ==
    << <<{"admin", "superadmin", "owner", "globaladmin", "root"},
         {"billing", "finance", "payment"}>>,
       <<{"admin", "superadmin", "owner"}, {"auditor", "compliance", "security"}>>,
       <<{"developer", "engineer"}, {"deployer", "release", "production"}>>,
       <<{"dbadmin", "dba"}, {"developer", "engineer"}>> >>

ADMIN_KEYWORDS == {"admin", "owner", "superadmin", "root", "globaladmin"}

\* any(any(kw in r for kw in kws) for r in roles_lower)
HasKeyword(roles_lower, kws) == \E r \in roles_lower : \E kw \in kws : Contains(kw, r)

Violation(policy, severity) == [policy |-> policy, severity |-> severity]
Fails(policy, severity) == [violations |-> <<Violation(policy, severity)>>, passed |-> <<>>]
\* `passed.append(policy)` of the branch that finds no violation
PassesUnrecorded(policy) == [violations |-> <<>>, passed |-> <<>>]
Passes(policy) == [violations |-> <<>>, passed |-> <<policy>>]

\* score = max(0, round((1 - unique_violated_weight / total_weight) * 100))
ViolatedShare(unique_violated_weight, total_weight) ==
    RoundHalfEven(unique_violated_weight * 100, total_weight)
ComplianceScore(unique_violated_weight, total_weight) ==
    IF unique_violated_weight > total_weight THEN 0
    ELSE FloatRound(FloatMul(FloatSub(FloatOfInt(1),
                                      FloatDiv(FloatOfInt(unique_violated_weight),
                                               total_weight)),
                             FloatOfInt(100)),
                    0)

\* `if days_inactive > 90` of the dormant account policy
DormantFromNinety(days_inactive) == days_inactive >= 90
ExceedsDormancy(days_inactive) == days_inactive > 90

PolicyChecks(ids, identity) ==
    LET roles_lower == {lower(r) : r \in Range(identity.roles)}
        admin_roles == {r \in roles_lower : \E kw \in ADMIN_KEYWORDS : Contains(kw, r)}
        same_email_cloud ==
            SelectSeq(ids, LAMBDA i : /\ i.email # "" /\ identity.email # ""
                                      /\ lower(i.email) = lower(identity.email)
                                      /\ IsCloud(i))
        is_cross_cloud == Len(same_email_cloud) > 1
        toxic == \E k \in 1..Len(TOXIC_COMBINATIONS) :
                    /\ HasKeyword(roles_lower, TOXIC_COMBINATIONS[k][1])
                    /\ HasKeyword(roles_lower, TOXIC_COMBINATIONS[k][2])
    IN  << IF Len(identity.roles) > 8 \/ Cardinality(admin_roles) > 2
           THEN Fails("least_privilege", "high")
           ELSE IF admin_roles # {} /\ ~identity.mfaEnabled
                THEN Fails("least_privilege", "critical")
                ELSE Passes("least_privilege"),
           IF is_cross_cloud /\ ~identity.mfaEnabled
           THEN Fails("zero_trust", "critical")
           ELSE IF is_cross_cloud /\ admin_roles # {}
                THEN Fails("zero_trust", "high")
                ELSE Passes("zero_trust"),
           IF ~identity.mfaEnabled
           THEN Fails("mfa_enforcement", IF admin_roles # {} THEN "critical" ELSE "high")
           ELSE Passes("mfa_enforcement"),
           IF identity.lastLogin # <<>>
           THEN IF ExceedsDormancy(DaysInactive(identity))
                THEN Fails("dormant_account", "high")
                ELSE IF DaysInactive(identity) > 30 THEN Fails("dormant_account", "medium")
                ELSE Passes("dormant_account")
           ELSE IF ~identity.isActive THEN Fails("dormant_account", "medium")
                ELSE Passes("dormant_account"),
           IF toxic THEN Fails("separation_of_duties", "high")
           ELSE Passes("separation_of_duties") >>

check_identity_compliance(ids, identity) ==
    LET checks == PolicyChecks(ids, identity)
        violations == Flatten([k \in 1..Len(checks) |-> checks[k].violations])
        passed == Flatten([k \in 1..Len(checks) |-> checks[k].passed])
        total_weight == SumSeq([k \in 1..Len(COMPLIANCE_POLICIES) |->
                                   COMPLIANCE_POLICIES[k].weight])
        violated_policies == {violations[k].policy : k \in 1..Len(violations)}
        unique_violated_weight ==
            SumSeq([k \in 1..Len(COMPLIANCE_POLICIES) |->
                       IF COMPLIANCE_POLICIES[k].policy \in violated_policies
                       THEN COMPLIANCE_POLICIES[k].weight ELSE 0])
    IN  [identityId |-> identity.id,
         email |-> identity.email,
         compliance_score |-> ComplianceScore(unique_violated_weight, total_weight),
         violations |-> violations,
         passed_policies |-> passed,
         total_checks |-> Len(COMPLIANCE_POLICIES),
         violations_count |-> Len(violations)]

(***************************************************************************)
(* Remediation engine: RemediationEngine.generate_for_identity.            *)
(* An action is the template's fields and the fields the engine adds.      *)
(***************************************************************************)
Template(title, description, category, auto, reduction) ==
    [title |-> title, description |-> description, category |-> category,
     auto_remediation_possible |-> auto, estimated_risk_reduction |-> reduction]

REMEDIATION_TEMPLATES ==
    [enable_mfa |->
        Template("Enable Multi-Factor Authentication",
                 "Enable MFA on all accounts to prevent credential-based attacks",
                 "Authentication", TRUE, 25),
     remove_unused_roles |->
        Template("Remove Unused / Excessive Roles",
                 "Remove roles that exceed operational requirements",
                 "Access Control", TRUE, 15),
     disable_dormant |->
        Template("Disable Dormant Account",
                 "Disable accounts inactive for extended periods",
                 "Account Lifecycle", TRUE, 20),
     reduce_privilege |->
        Template("Reduce Privilege Scope",
                 "Downgrade admin privileges to least-privilege roles",
                 "Privilege Management", FALSE, 20),
     separate_toxic |->
        Template("Separate Toxic Role Combinations",
                 "Split conflicting duties into separate accounts",
                 "Governance", FALSE, 15),
     rotate_credentials |->
        Template("Rotate Stale Credentials",
                 "Force credential rotation for accounts with aged credentials",
                 "Credential Management", TRUE, 10),
     link_identity |->
        Template("Link Orphaned SaaS Identity",
                 "Link unlinked SaaS identity to cloud IAM provider",
                 "Identity Governance", FALSE, 10),
     restrict_cross_cloud |->
        Template("Restrict Cross-Cloud Admin Access",
                 "Apply conditional access policies for cross-cloud admin operations",
                 "Zero Trust", FALSE, 15)]

ThreeToxicSets ==
    << <<{"admin", "superadmin", "owner", "globaladmin", "root"},
         {"billing", "finance", "payment"}>>,
       <<{"admin", "superadmin", "owner"}, {"auditor", "compliance", "security"}>>,
       <<{"developer", "engineer"}, {"deployer", "release", "production"}>> >>
TOXIC_ROLE_SETS ==
    << <<{"admin", "superadmin", "owner", "globaladmin", "root"},
         {"billing", "finance", "payment"}>>,
       <<{"admin", "superadmin", "owner"}, {"auditor", "compliance", "security"}>>,
       <<{"developer", "engineer"}, {"deployer", "release", "production"}>>,
       <<{"dbadmin", "dba"}, {"developer", "engineer"}>> >>

MediumFromForty(risk_score, is_admin) ==
    IF risk_score >= 80 \/ (is_admin /\ risk_score >= 50) THEN "critical"
    ELSE IF risk_score >= 60 THEN "high"
    ELSE IF risk_score >= 40 THEN "medium"
    ELSE "low"
_get_priority(risk_score, is_admin) ==
    IF risk_score >= 80 \/ (is_admin /\ risk_score >= 50) THEN "critical"
    ELSE IF risk_score >= 60 THEN "high"
    ELSE IF risk_score >= 30 THEN "medium"
    ELSE "low"

\* {**tmpl, "identityId": ..., "email": ..., "provider": ..., ...}
Action(tmpl, identity, priority_level, details) ==
    tmpl @@ [identityId |-> identity.id, email |-> identity.email,
             provider |-> identity.source, priority_level |-> priority_level,
             details |-> details]

\* i.email and identity.email and i.email.lower() == identity.email.lower()
SameEmail(i, identity) ==
    i.email # "" /\ identity.email # "" /\ lower(i.email) = lower(identity.email)

\* i.source in cloud_sources
InCloudSources(i) == i.source \in {"aws", "azure", "gcp"}

\* `if not has_cloud`
AlwaysUnlinked(has_cloud) == TRUE
NotLinked(has_cloud) == ~has_cloud

\* `if cloud_admin_count > 1`
IsCrossCloudAdmin(count) == count > 1

\* the actions in the order generate_for_identity appends them
RemediationSteps(ids, identity) ==
    LET roles_lower == {lower(r) : r \in Range(identity.roles)}
        is_admin == \E r \in roles_lower :
                        \E kw \in {"admin", "owner", "superadmin", "root", "globaladmin"} :
                            Contains(kw, r)
        excess == SubSeq(identity.roles, 6, Len(identity.roles))
        days_inactive == IF identity.lastLogin # <<>> THEN DaysInactive(identity) ELSE 0
        toxic == \E k \in 1..Len(TOXIC_ROLE_SETS) :
                    /\ HasKeyword(roles_lower, TOXIC_ROLE_SETS[k][1])
                    /\ HasKeyword(roles_lower, TOXIC_ROLE_SETS[k][2])
        has_cloud == \E k \in 1..Len(ids) : SameEmail(ids[k], identity) /\ InCloudSources(ids[k])
        cloud_admin_count ==
            Cardinality({k \in 1..Len(ids) : /\ SameEmail(ids[k], identity)
                                             /\ InCloudSources(ids[k])
                                             /\ HasAdminRole(ids[k].roles)})
    IN  << IF ~identity.mfaEnabled
           THEN <<Action(REMEDIATION_TEMPLATES.enable_mfa, identity,
                         IF is_admin THEN "critical" ELSE "high",
                         "Enable MFA on " \o upper(identity.source) \o " account for "
                             \o identity.email)>>
           ELSE <<>>,
           IF Len(identity.roles) > 8
           THEN <<Action(REMEDIATION_TEMPLATES.remove_unused_roles, identity,
                         _get_priority(identity.riskScore, is_admin),
                         "Review and remove " \o ToString(Len(excess))
                             \o " potentially excessive roles: "
                             \o Join(", ", SubSeq(excess, 1, Min(5, Len(excess)))))
                    @@ [roles_to_review |-> excess]>>
           ELSE <<>>,
           IF identity.lastLogin # <<>> /\ days_inactive > 90
           THEN <<Action(REMEDIATION_TEMPLATES.disable_dormant, identity,
                         IF is_admin THEN "high" ELSE "medium",
                         "Account inactive for " \o ToString(days_inactive)
                             \o " days. Disable or verify with user.")
                    @@ [days_inactive |-> days_inactive]>>
           ELSE <<>>,
           IF is_admin /\ Len(identity.roles) > 3
           THEN <<Action(REMEDIATION_TEMPLATES.reduce_privilege, identity,
                         _get_priority(identity.riskScore, TRUE),
                         "Admin account has " \o ToString(Len(identity.roles))
                             \o " roles. Evaluate if full admin is required.")>>
           ELSE <<>>,
           IF toxic
           THEN <<Action(REMEDIATION_TEMPLATES.separate_toxic, identity, "high",
                         "Toxic combination detected: Conflict found between administrative and sensitive business functions.")>>
           ELSE <<>>,
           IF identity.source = "okta" /\ NotLinked(has_cloud)
           THEN <<Action(REMEDIATION_TEMPLATES.link_identity, identity, "medium",
                         "Okta identity " \o identity.email
                             \o " not linked to any cloud IAM provider.")>>
           ELSE <<>>,
           IF IsCrossCloudAdmin(cloud_admin_count)
           THEN <<Action(REMEDIATION_TEMPLATES.restrict_cross_cloud, identity, "high",
                         "Admin access across " \o ToString(cloud_admin_count)
                             \o " cloud providers. Apply conditional access.")>>
           ELSE <<>> >>

\* priority_order.get(a.get("priority_level", "low"), 3)
HighFirst(action) ==
    IF action.priority_level = "high" THEN 0
    ELSE IF action.priority_level = "critical" THEN 1
    ELSE IF action.priority_level = "medium" THEN 2
    ELSE 3
PriorityRank(action) ==
    IF action.priority_level = "critical" THEN 0
    ELSE IF action.priority_level = "high" THEN 1
    ELSE IF action.priority_level = "medium" THEN 2
    ELSE 3

\* actions.sort(key=...): the sort is stable and the key has four values, so
\* the sorted list is the entries of rank 0 in their order, then those of
\* rank 1, of rank 2 and of rank 3
SortByPriority(s) ==
    Flatten([rank \in 1..4 |-> SelectSeq(s, LAMBDA a : PriorityRank(a) = rank - 1)])

generate_for_identity(ids, identity) ==
    SortByPriority(Flatten(RemediationSteps(ids, identity)))

\* all_actions[:50]
RESPONSE_CAP == 50
RISK_REDUCTION_CAP == 100

\* RemediationEngine(ids).generate_all()
generate_all(ids) ==
    LET per_identity == [k \in 1..Len(ids) |-> generate_for_identity(ids, ids[k])]
        identity_actions == {ids[k].id : k \in {j \in 1..Len(ids) : per_identity[j] # <<>>}}
        all_actions == SortByPriority(Flatten(per_identity))
        at == 1..Len(all_actions)
        total_risk_reduction ==
            SumSeq([k \in at |-> all_actions[k].estimated_risk_reduction])
        auto_count == Cardinality({k \in at : all_actions[k].auto_remediation_possible})
    IN  [total_actions |-> Len(all_actions),
         identities_affected |-> Cardinality(identity_actions),
         priority_breakdown |->
            [p \in {"critical", "high", "medium", "low"} |->
                Cardinality({k \in at : all_actions[k].priority_level = p})],
         category_breakdown |->
            [c \in {all_actions[k].category : k \in at} |->
                Cardinality({k \in at : all_actions[k].category = c})],
         auto_remediable_count |-> auto_count,
         manual_count |-> Len(all_actions) - auto_count,
         estimated_total_risk_reduction |-> Min(total_risk_reduction, RISK_REDUCTION_CAP),
         actions |-> SubSeq(all_actions, 1, Min(Len(all_actions), RESPONSE_CAP))]

(***************************************************************************)
(* EnhancedRiskEngine.process_all_enhanced.                                *)
(*                                                                         *)
(* The engine, its graph nodes and its email map hold the identity objects *)
(* of the list it was given, so a field assigned to an identity is seen    *)
(* through the list and through the node of the graph that holds the       *)
(* identity.  exposureLevel is a float.  cloudAccounts is list(set):       *)
(* the order of a set of strings is not fixed by the language, so the      *)
(* list of an email with several cloud providers is given by an order      *)
(* chosen for that email (orders).                                         *)
(***************************************************************************)
\* self._email_map.get(identity.email.lower(), [])
EmailMapGet(ids, identity) ==
    SelectSeq(ids, LAMBDA i : lower(i.email) = lower(identity.email))

EXPOSURE_NO_MFA == 35
EXPOSURE_ADMIN == 25
EXPOSURE_PER_RELATED == 10
EXPOSURE_RELATED_CAP == 30
EXPOSURE_CAP == 100

\* exposure += (blast["blastRadius"] / 100) * 10
BlastExposure(exposure, blast_radius) ==
    LET share == FloatDiv(FloatOfInt(blast_radius), 100)
        points == FloatMul(share, FloatOfInt(10))
    IN  IF Computed(exposure) /\ Computed(share) /\ Computed(points)
        THEN FloatAdd(exposure, points)
        ELSE exposure

\* min(exposure, 100)
CapExposure(exposure) ==
    IF FloatLess(FloatOfInt(EXPOSURE_CAP), exposure) THEN FloatOfInt(EXPOSURE_CAP)
    ELSE exposure

calculate_exposure_level(ids, g, identity) ==
    LET related == EmailMapGet(ids, identity)
        blast == calculate_blast_radius(g, identity.id)
        no_mfa == IF ~identity.mfaEnabled THEN FloatAdd(FloatZero, FloatOfInt(EXPOSURE_NO_MFA))
                  ELSE FloatZero
        admin == IF HasAdminRole(identity.roles)
                 THEN FloatAdd(no_mfa, FloatOfInt(EXPOSURE_ADMIN))
                 ELSE no_mfa
        linked == FloatAdd(admin, FloatOfInt(Min(Len(related) * EXPOSURE_PER_RELATED,
                                                 EXPOSURE_RELATED_CAP)))
    IN  IF Computed(blast) THEN CapExposure(BlastExposure(linked, blast.blastRadius))
        ELSE CapExposure(linked)

\* the providers among aws, azure and gcp of the identities with that email
CloudSet(ids, identity) ==
    {SourceName(i) : i \in Range(EmailMapGet(ids, identity))} \cap {"aws", "azure", "gcp"}

\* the orders a list made of a set of cloud providers can have
CloudOrders == {s \in [1..3 -> {"aws", "azure", "gcp"}] : Range(s) = {"aws", "azure", "gcp"}}
MultiCloudEmails(ids) ==
    {lower(ids[k].email) : k \in {j \in 1..Len(ids) : Cardinality(CloudSet(ids, ids[j])) > 1}}

\* list({...})
CloudList(ids, identity, orders) ==
    LET cloud == CloudSet(ids, identity)
        order == IF lower(identity.email) \in DOMAIN orders
                 THEN orders[lower(identity.email)]
                 ELSE <<"aws", "azure", "gcp">>
    IN  SelectSeq(order, LAMBDA c : c \in cloud)

\* identity.blastRadius = blast["blastRadius"]
SetRiskScore(identity, blast) == [identity EXCEPT !.riskScore = blast.blastRadius]
SetBlastRadius(identity, blast) == [identity EXCEPT !.blastRadius = blast.blastRadius]

\* the assignments of one pass of `for identity in self.identities`, on the
\* identity at place k, given what the four analyses returned; st holds the
\* identity list, the graph and the results so far
EnhancedAssign(st, k, orders, blast, attack_paths, tier, exposure) ==
    LET identity == st.ids[k]
        scored == [identity EXCEPT !.privilegeTier = tier,
                                   !.exposureLevel = exposure,
                                   !.attackPathCount = Len(attack_paths)]
        updated == [SetBlastRadius(scored, blast) EXCEPT
                        !.cloudAccounts = CloudList(st.ids, identity, orders)]
        \* the node of that id holds this identity unless a later one replaced it
        held == \A j \in (k + 1)..Len(st.ids) : st.ids[j].id # identity.id
    IN  [ids |-> [st.ids EXCEPT ![k] = updated],
         graph |-> IF held
                   THEN [st.graph EXCEPT !.nodes = [@ EXCEPT ![identity.id] = updated]]
                   ELSE st.graph,
         results |-> Append(st.results,
                        [identity |-> k,
                         blastRadius |-> blast,
                         attackPaths |-> SubSeq(attack_paths, 1, Min(Len(attack_paths), 5)),
                         privilegeTier |-> tier,
                         exposureLevel |-> exposure])]

\* one pass of the loop of process_all_enhanced, for the identity at place k
EnhancedStep(st, k, orders) ==
    EnhancedAssign(st, k, orders,
                   calculate_blast_radius(st.graph, st.ids[k].id),
                   find_admin_takeover_paths(st.graph, st.ids[k].id),
                   calculate_privilege_tier(st.graph, st.ids[k]),
                   calculate_exposure_level(st.ids, st.graph, st.ids[k]))

\* the passes for the identities at places from..to, in order
RECURSIVE EnhancedLoop(_, _, _, _)
EnhancedLoop(st, from, to, orders) ==
    IF from > to THEN st
    ELSE IF from = to THEN EnhancedStep(st, from, orders)
    ELSE LET mid == (from + to) \div 2
             first == EnhancedLoop(st, from, mid, orders)
         IN  IF Computed(first) THEN EnhancedLoop(first, mid + 1, to, orders) ELSE first

\* the "identity" of a result is the identity object itself, as it is when
\* the call returns
EnhancedResults(final) ==
    [ids |-> final.ids,
     graph |-> final.graph,
     results |-> [k \in 1..Len(final.results) |->
                     [final.results[k] EXCEPT !.identity = final.ids[@]]]]

process_all_enhanced(ids, g, orders) ==
    EnhancedResults(EnhancedLoop([ids |-> ids, graph |-> g, results |-> <<>>],
                                 1, Len(ids), orders))

(***************************************************************************)
(* The identity snapshots the analyses are run on.                         *)
(***************************************************************************)
Identity(email, source, provider, roles, mfa, lastLogin, risk, linked, groups) ==
    [id |-> "", email |-> email, source |-> source, provider |-> provider,
     roles |-> roles, mfaEnabled |-> mfa, lastLogin |-> lastLogin,
     isActive |-> TRUE, riskScore |-> risk, linkedAccounts |-> linked,
     groupMembership |-> groups, privilegeTier |-> "low", exposureLevel |-> FloatZero,
     attackPathCount |-> 0, blastRadius |-> 0, permissions |-> <<>>,
     cloudAccounts |-> <<>>]

IdName(k) == "u" \o ToString(k)
\* ids that name no identity of a snapshot: an unused id and a virtual node
UnknownIds == {"u0", "vgroup:eng"}

\* accounts of a small organisation: linked accounts, shared groups, shared
\* emails in different case, admin and non-admin roles
Profiles ==
    { Identity("amy@co", "aws", None, <<"Developer">>, TRUE, <<>>, 10,
               <<"u2">>, <<"eng">>),
      Identity("bob@co", "azure", None, <<"Global Administrator">>, FALSE, <<>>, 90,
               <<"u3">>, <<>>),
      Identity("Bob@co", "gcp", None, <<"Owner", "admin">>, TRUE, <<>>, 60,
               <<>>, <<"eng">>),
      Identity("cat@co", "okta", None, <<>>, TRUE, <<>>, 55,
               <<>>, <<"eng">>),
      Identity("dan@co", "github", None, <<"Viewer">>, FALSE, <<>>, 20,
               <<>>, <<>>),
      Identity("eve@co", "demo", "aws", <<"ReadWrite">>, TRUE, <<>>, 85,
               <<"u1", "u9">>, <<"eng", "ops">>),
      Identity("fay@co", "aws", None, <<"admin">>, FALSE, <<>>, 40,
               <<>>, <<>>) }

Snapshots(n) ==
    {[k \in 1..n |-> [ps[k] EXCEPT !.id = IdName(k)]] : ps \in [1..n -> Profiles]}

\* a larger team: every member has an own email, is in the group "ops" and
\* holds one role; the providers repeat in a fixed order
CrowdSources == <<"aws", "azure", "gcp", "okta", "github">>
CrowdRoles == {"AdministratorAccess", "Editor"}

CrowdMember(k, role) ==
    [Identity(IdName(k) \o "@co", CrowdSources[((k - 1) % Len(CrowdSources)) + 1],
              None, <<role>>, TRUE, <<>>, 70, <<>>, <<"ops">>)
        EXCEPT !.id = IdName(k)]

CrowdSnapshots(n) ==
    {[k \in 1..n |-> CrowdMember(k, rs[k])] : rs \in [1..n -> CrowdRoles]}

\* a snapshot whose first identity has an id that begins with the letter v,
\* as ids taken over from a provider may (okta and aws ids are used as is)
VendorNames == <<"v1", "u2">>

VendorSnapshots ==
    {[k \in 1..Len(VendorNames) |->
         [ps[k] EXCEPT !.id = VendorNames[k],
                       !.linkedAccounts = IF k = 1 THEN <<"u2">> ELSE <<>>]] :
        ps \in [1..Len(VendorNames) -> Profiles]}

\* a department of n accounts: u1..u10 are in the group "ops", u10 and
\* u14..un in the group "dev", and u10 -> u11 -> u12 -> u13 are linked in a
\* chain; the providers and the risk scores repeat along the list, the scores
\* starting at a position that differs from snapshot to snapshot
TeamSources == <<"aws", "azure", "gcp">>
TeamRisks == <<85, 60, 30, 95, 55, 10, 80, 51, 50>>

TeamMember(k, shift) ==
    [Identity(IdName(k) \o "@team", TeamSources[((k - 1) % Len(TeamSources)) + 1], None,
              <<"Editor">>, TRUE, <<>>, TeamRisks[((k + shift) % Len(TeamRisks)) + 1],
              IF k \in 10..12 THEN <<IdName(k + 1)>> ELSE <<>>,
              IF k < 10 THEN <<"ops">>
              ELSE IF k = 10 THEN <<"ops", "dev">>
              ELSE IF k >= 14 THEN <<"dev">> ELSE <<>>)
        EXCEPT !.id = IdName(k)]

TeamSnapshots(n) ==
    {[k \in 1..n |-> TeamMember(k, shift)] : shift \in 0..(Len(TeamRisks) - 1)}

\* accounts that exercise the scoring rules: missing MFA, admin and toxic
\* roles, dormancy on both sides of the 30 and 90 day thresholds, HR and cloud
\* siblings by email, long role and group lists, a service account
ManyRoles(n) == [k \in 1..n |-> "team-" \o ToString(k)]
ManyGroups(n) == [k \in 1..n |-> "group-" \o ToString(k)]

ScoreProfiles ==
    { Identity("alice@co", "aws", None, <<"AdministratorAccess">>, FALSE, <<>>, 75,
               <<>>, <<>>),
      Identity("Alice@co", "hr", None, <<>>, TRUE, <<UtcNow - 3>>, 0, <<>>, <<>>),
      Identity("svc-admin@co", "azure", None,
               <<"Global Administrator", "Finance Billing", "prod-db">>, FALSE,
               <<UtcNow - 95>>, 100, <<>>, <<>>),
      Identity("pat@co", "okta", None, <<"dbadmin", "developer">>, TRUE,
               <<UtcNow - 31>>, 45, <<>>, <<"eng">>),
      Identity("dev@co", "github", None, <<"Repo Admin">>, TRUE, <<UtcNow - 30>>, 50,
               <<>>, ManyGroups(6)),
      Identity("x@co", "gcp", None, ManyRoles(10), TRUE, <<UtcNow - 90>>, 35,
               <<>>, <<>>),
      [Identity("X@co", "demo", "aws", <<"Viewer">>, FALSE, <<>>, 30, <<>>, <<>>)
          EXCEPT !.isActive = FALSE],
      Identity("dev@co", "demo", "hr", <<"Release Engineer">>, TRUE, <<UtcNow - 91>>, 25,
               <<>>, <<>>),
      Identity("", "gcp", None, <<"Editor">>, TRUE, <<UtcNow - 91>>, 10, <<>>, <<>>),
      Identity("zoe@co", "hr", None, <<>>, TRUE, <<UtcNow>>, 0, <<>>, <<>>),
      Identity("ALICE@co", "azure", None, <<"Global Administrator">>, TRUE, <<>>, 65,
               <<>>, <<>>),
      Identity("alice@CO", "okta", None, <<"Everyone">>, TRUE, <<UtcNow - 10>>, 15,
               <<>>, <<>>),
      Identity("", "okta", None, <<"Everyone">>, TRUE, <<>>, 5, <<>>, <<>>),
      Identity("x@co", "demo", "okta", <<"Support">>, TRUE, <<>>, 20, <<>>, <<>>),
      Identity("ops@co", "gcp", None, <<"Owner", "Editor", "Viewer", "Reader">>, TRUE,
               <<>>, 55, <<>>, <<>>) }

ScoreSnapshots(n) ==
    {[k \in 1..n |-> [ps[k] EXCEPT !.id = IdName(k)]] : ps \in [1..n -> ScoreProfiles]}

\* a fleet of accounts with an email each, enough of them to need more
\* remediation actions than one response holds: an admin without MFA that is
\* dormant and holds a toxic pair of roles, a dormant developer without MFA,
\* an okta account without a cloud sibling, an account with nine roles
FleetProfiles ==
    << Identity("", "azure", None, <<"Global Administrator", "Finance Billing">>, FALSE,
                <<UtcNow - 95>>, 90, <<>>, <<>>),
       Identity("", "github", None, <<"Developer">>, FALSE, <<UtcNow - 100>>, 40,
                <<>>, <<>>),
       Identity("", "okta", None, <<"Everyone">>, TRUE, <<>>, 20, <<>>, <<>>),
       Identity("", "gcp", None, ManyRoles(9), TRUE, <<>>, 10, <<>>, <<>>) >>

FleetMember(k, shift) ==
    [FleetProfiles[((k + shift) % Len(FleetProfiles)) + 1]
        EXCEPT !.id = IdName(k), !.email = IdName(k) \o "@fleet"]

FleetSnapshots(n) ==
    {[k \in 1..n |-> FleetMember(k, shift)] : shift \in 0..(Len(FleetProfiles) - 1)}

NoGraph == [nodes |-> <<>>, adjacency |-> <<>>, _email_to_ids |-> <<>>]
NoCall == [op |-> "none"]

Init ==
    /\ identities \in (UNION {Snapshots(n) : n \in 1..MaxIds})
                      \cup CrowdSnapshots(MaxCrowd)
                      \cup VendorSnapshots
                      \cup TeamSnapshots(MaxTeam)
    /\ graph = NoGraph
    /\ phase = "loaded"
    /\ last = NoCall
    /\ NoSync

QueryIds == {identities[k].id : k \in 1..Len(identities)} \cup UnknownIds

(***************************************************************************)
(* Operations.                                                             *)
(***************************************************************************)
\* IdentityGraph(identities): a graph object is built from the snapshot.  A
\* second one is built from the list as it is then: right after the first,
\* after a traversal of the first or an analysis over all its nodes, or
\* after process_all_enhanced assigned the derived fields of the identities.
\* The node and edge sets of the graph built before it are kept for
\* comparison, with what ran in between and whether that left the list as
\* it was.
RebuiltAfter ==
    {"find_admin_takeover_paths", "get_risk_distribution", "get_breach_probability",
     "process_all_enhanced"}

ListUnchanged ==
    IF last.op = "process_all_enhanced" THEN last.identitiesBefore = identities ELSE TRUE

BuildGraph ==
    /\ phase \in {"loaded", "built", "answered"}
    /\ phase = "answered" => last.op \in RebuiltAfter
    /\ graph' = IdentityGraph(identities)
    /\ phase' = IF phase = "loaded" THEN "built" ELSE "rebuilt"
    /\ last' = [op |-> "build", rebuilt |-> (phase # "loaded"), after |-> last.op,
                unchanged |-> ListUnchanged,
                nodesBefore |-> NodeSet(graph), edgesBefore |-> EdgeSet(graph)]
    /\ UNCHANGED <<identities, connector, tasks, store, service, requests, world>>

\* a query on the graph built from the snapshot
GetConnectedIdentities ==
    /\ phase = "built"
    /\ \E id \in QueryIds, d \in 0..MaxDepthArg :
          last' = [op |-> "get_connected_identities", id |-> id, max_depth |-> d,
                   result |-> get_connected_identities(graph, id, d)]
    /\ phase' = "answered"
    /\ UNCHANGED <<identities, graph, connector, tasks, store, service, requests, world>>

FindAdminTakeoverPaths ==
    /\ phase = "built"
    /\ \E id \in QueryIds :
          last' = [op |-> "find_admin_takeover_paths", id |-> id,
                   result |-> find_admin_takeover_paths(graph, id)]
    /\ phase' = "answered"
    /\ UNCHANGED <<identities, graph, connector, tasks, store, service, requests, world>>

CalculateBlastRadius ==
    /\ phase = "built"
    /\ \E id \in QueryIds :
          last' = [op |-> "calculate_blast_radius", id |-> id,
                   result |-> calculate_blast_radius(graph, id)]
    /\ phase' = "answered"
    /\ UNCHANGED <<identities, graph, connector, tasks, store, service, requests, world>>

DetectLateralMovementPaths ==
    /\ phase = "built"
    /\ \E id \in QueryIds :
          last' = [op |-> "detect_lateral_movement_paths", id |-> id,
                   result |-> detect_lateral_movement_paths(graph, id)]
    /\ phase' = "answered"
    /\ UNCHANGED <<identities, graph, connector, tasks, store, service, requests, world>>

GetRiskDistribution ==
    /\ phase = "built"
    /\ last' = [op |-> "get_risk_distribution", id |-> None,
                result |-> get_risk_distribution(graph)]
    /\ phase' = "answered"
    /\ UNCHANGED <<identities, graph, connector, tasks, store, service, requests, world>>

\* the engine's methods, on an engine constructed over the snapshot
CalculatePrivilegeTier ==
    /\ phase = "built"
    /\ \E k \in 1..Len(identities) :
          last' = [op |-> "calculate_privilege_tier", id |-> identities[k].id,
                   result |-> calculate_privilege_tier(graph, identities[k])]
    /\ phase' = "answered"
    /\ UNCHANGED <<identities, graph, connector, tasks, store, service, requests, world>>

GetBreachProbability ==
    /\ phase = "built"
    /\ last' = [op |-> "get_breach_probability", id |-> None,
                result |-> get_breach_probability(identities, graph)]
    /\ phase' = "answered"
    /\ UNCHANGED <<identities, graph, connector, tasks, store, service, requests, world>>

\* EnhancedRiskEngine(identities).process_all_enhanced(); the identity list
\* and the graph as they were before the call are kept for comparison
EnhancedReturns(out) ==
    /\ identities' = out.ids
    /\ graph' = out.graph
    /\ last' = [op |-> "process_all_enhanced", id |-> None, result |-> out.results,
                identitiesBefore |-> identities, graphBefore |-> graph]

ProcessAllEnhanced ==
    /\ phase = "built"
    /\ \E orders \in [MultiCloudEmails(identities) -> CloudOrders] :
          EnhancedReturns(process_all_enhanced(identities, graph, orders))
    /\ phase' = "answered"
    /\ UNCHANGED <<connector, tasks, store, service, requests, world>>

Next ==
    \/ ProcessAllEnhanced
    \/ BuildGraph
    \/ GetConnectedIdentities
    \/ FindAdminTakeoverPaths
    \/ CalculateBlastRadius
    \/ DetectLateralMovementPaths
    \/ GetRiskDistribution
    \/ CalculatePrivilegeTier
    \/ GetBreachProbability

Spec == Init /\ [][Next]_vars

(***************************************************************************)
(* The scoring engines, each constructed over the snapshot and asked about *)
(* one identity of it.                                                     *)
(***************************************************************************)
InitScore ==
    /\ identities \in (UNION {ScoreSnapshots(n) : n \in 1..MaxScoreIds})
                      \cup FleetSnapshots(MaxFleet)
    /\ graph = NoGraph
    /\ phase = "loaded"
    /\ last = NoCall
    /\ NoSync

CalculateRiskScore ==
    /\ phase = "loaded"
    /\ \E k \in 1..Len(identities) :
          last' = [op |-> "calculate_risk_score", identity |-> identities[k],
                   result |-> calculate_risk_score(identities, identities[k])]
    /\ phase' = "answered"
    /\ UNCHANGED <<identities, graph, connector, tasks, store, service, requests, world>>

CheckIdentityCompliance ==
    /\ phase = "loaded"
    /\ \E k \in 1..Len(identities) :
          last' = [op |-> "check_identity_compliance", identity |-> identities[k],
                   result |-> check_identity_compliance(identities, identities[k])]
    /\ phase' = "answered"
    /\ UNCHANGED <<identities, graph, connector, tasks, store, service, requests, world>>

GenerateForIdentity ==
    /\ phase = "loaded"
    /\ \E k \in 1..Len(identities) :
          last' = [op |-> "generate_for_identity", identity |-> identities[k],
                   result |-> generate_for_identity(identities, identities[k])]
    /\ phase' = "answered"
    /\ UNCHANGED <<identities, graph, connector, tasks, store, service, requests, world>>

GenerateAll ==
    /\ phase = "loaded"
    /\ last' = [op |-> "generate_all", identity |-> None,
                result |-> generate_all(identities)]
    /\ phase' = "answered"
    /\ UNCHANGED <<identities, graph, connector, tasks, store, service, requests, world>>

NextScore ==
    \/ CalculateRiskScore
    \/ CheckIdentityCompliance
    \/ GenerateForIdentity
    \/ GenerateAll

SpecScore == InitScore /\ [][NextScore]_vars

(***************************************************************************)
(* Provider connectors: RateLimiter, BaseConnector.sync and the normalize  *)
(* of the connectors (connectors/base.py, okta.py, aws.py, gcp.py,         *)
(* github.py, azure.py, gitlab.py).                                        *)
(*                                                                         *)
(* Times are in milliseconds.  The risk scores of the synced identities    *)
(* and of the stored documents are in hundredths (0.8 is 80, 61 is 6100).  *)
(* An exception is a record with the field error.                          *)
(***************************************************************************)
RETRY_LIMIT == 3
BASE_DELAY == 1000
REQUESTS_PER_SECOND == 5

\* raw_data.get(key, default)
GetOr(raw_data, key, default) ==
    IF key \in DOMAIN raw_data THEN raw_data[key] ELSE default

\* doc[key] = value
SetField(doc, key, value) ==
    [k \in DOMAIN doc \cup {key} |-> IF k = key THEN value ELSE doc[k]]

KeyError == [error |-> "KeyError"]
IsError(value) == "error" \in DOMAIN value

(***************************************************************************)
(* The last login of a raw record: s.replace("Z", "+00:00") and            *)
(* datetime.fromisoformat, as normalize calls them (okta.py:72, aws.py:83).*)
(*                                                                         *)
(* A datetime is the record of its fields; tzinfo is <<>> for a naive      *)
(* datetime and else holds the offset, a timedelta normalized to seconds   *)
(* and 0..999999 microseconds.  A position in a string counts from 0, and  *)
(* the character behind the end of a string is "".                         *)
(***************************************************************************)
ValueError == [error |-> "ValueError"]

\* s.replace(old, new), old one character
RECURSIVE replace(_, _, _)
replace(s, old, new) ==
    IF Len(s) = 0 THEN ""
    ELSE IF Len(s) = 1 THEN (IF s = old THEN new ELSE s)
    ELSE replace(SubSeq(s, 1, Len(s) \div 2), old, new)
         \o replace(SubSeq(s, Len(s) \div 2 + 1, Len(s)), old, new)

CharAt(s, p) == IF p >= 0 /\ p < Len(s) THEN SubSeq(s, p + 1, p + 1) ELSE ""

DecimalDigits == <<"0", "1", "2", "3", "4", "5", "6", "7", "8", "9">>
is_digit(c) == \E k \in 1..10 : DecimalDigits[k] = c
DigitValue(c) == (CHOOSE k \in 1..10 : DecimalDigits[k] = c) - 1

\* num_digits digits from position p on: <<>> when one of them is no digit
RECURSIVE parse_digits(_, _, _, _)
parse_digits(s, p, num_digits, var) ==
    IF num_digits = 0 THEN <<[p |-> p, var |-> var]>>
    ELSE IF ~is_digit(CharAt(s, p)) THEN <<>>
    ELSE parse_digits(s, p + 1, num_digits - 1, var * 10 + DigitValue(CharAt(s, p)))

is_leap(year) == year % 4 = 0 /\ (year % 100 # 0 \/ year % 400 = 0)
DAYS_IN_MONTH == <<31, 28, 31, 30, 31, 30, 31, 31, 30, 31, 30, 31>>
days_in_month(year, month) ==
    IF month = 2 /\ is_leap(year) THEN 29 ELSE DAYS_IN_MONTH[month]
days_before_month(year, month) ==
    SumSeq([m \in 1..(month - 1) |-> days_in_month(year, m)])
days_before_year(year) ==
    (year - 1) * 365 + (year - 1) \div 4 - (year - 1) \div 100 + (year - 1) \div 400
ymd_to_ord(year, month, day) ==
    days_before_year(year) + days_before_month(year, month) + day
\* Monday is 0
weekday(year, month, day) == (ymd_to_ord(year, month, day) + 6) % 7

iso_week1_monday(year) ==
    LET first_day == ymd_to_ord(year, 1, 1)
        first_weekday == (first_day + 6) % 7
        week1_monday == first_day - first_weekday
    IN  IF first_weekday > 3 THEN week1_monday + 7 ELSE week1_monday

Ymd(year, month, day) == [year |-> year, month |-> month, day |-> day]

\* the date of day n + 1 of a year
DayOfYear(year, n) ==
    LET month == CHOOSE m \in 1..12 :
                     /\ days_before_month(year, m) <= n
                     /\ n < days_before_month(year, m) + days_in_month(year, m)
    IN  Ymd(year, month, n - days_before_month(year, month) + 1)

ord_to_ymd(ordinal) ==
    LET n400 == (ordinal - 1) \div 146097
        r400 == (ordinal - 1) % 146097
        n100 == r400 \div 36524
        r100 == r400 % 36524
        n4 == r100 \div 1461
        r4 == r100 % 1461
        n1 == r4 \div 365
        year == n400 * 400 + 1 + n100 * 100 + n4 * 4 + n1
    IN  IF n1 = 4 \/ n100 = 4 THEN Ymd(year - 1, 12, 31)
        ELSE DayOfYear(year, r4 % 365)

\* <<>> for a week or a day out of range
iso_to_ymd(iso_year, iso_week, iso_day) ==
    LET first_weekday == weekday(iso_year, 1, 1)
        long_year == first_weekday = 3 \/ (first_weekday = 2 /\ is_leap(iso_year))
    IN  IF iso_year < 1 THEN <<>>
        ELSE IF iso_week <= 0 \/ iso_week > 53 \/ (iso_week = 53 /\ ~long_year) THEN <<>>
        ELSE IF iso_day <= 0 \/ iso_day >= 8 THEN <<>>
        ELSE <<ord_to_ymd(iso_week1_monday(iso_year) + (iso_week - 1) * 7 + iso_day - 1)>>

\* where the date ends: 10 for YYYY-MM-DD and YYYY-Www-D, 8 for YYYYMMDD,
\* YYYY-Www and YYYYWwwD, 7 for YYYYWww
DigitsFrom(dtstr, idx) ==
    MinOf({k \in idx..Len(dtstr) : ~is_digit(CharAt(dtstr, k))})

_find_isoformat_datetime_separator(dtstr) ==
    LET len == Len(dtstr) IN
    IF len = 7 THEN 7
    ELSE IF CharAt(dtstr, 4) = "-"
    THEN IF CharAt(dtstr, 5) = "W"
         THEN IF len < 8 THEN -1
              ELSE IF len > 8 /\ CharAt(dtstr, 8) = "-"
              THEN IF len = 9 THEN -1
                   ELSE IF len > 10 /\ is_digit(CharAt(dtstr, 10)) THEN 8
                   ELSE 10
              ELSE 8
         ELSE 10
    ELSE IF CharAt(dtstr, 4) = "W"
    THEN LET idx == DigitsFrom(dtstr, 7) IN
         IF idx < 9 THEN idx ELSE IF idx % 2 = 0 THEN 7 ELSE 8
    ELSE 8

\* the week and the day of YYYY[-]Www[[-]D], p behind the W
ParseIsoWeek(dtstr, len, year, uses_separator, p) ==
    LET week == parse_digits(dtstr, p, 2, 0) IN
    IF week = <<>> THEN <<>>
    ELSE IF week[1].p >= len THEN iso_to_ymd(year, week[1].var, 1)
    ELSE IF uses_separator /\ CharAt(dtstr, week[1].p) # "-" THEN <<>>
    ELSE LET day == parse_digits(dtstr, week[1].p + (IF uses_separator THEN 1 ELSE 0), 1, 0)
         IN  IF day = <<>> THEN <<>> ELSE iso_to_ymd(year, week[1].var, day[1].var)

\* the month and the day of YYYY[-]MM[-]DD, p behind the year
ParseMonthDay(dtstr, year, uses_separator, p) ==
    LET month == parse_digits(dtstr, p, 2, 0) IN
    IF month = <<>> THEN <<>>
    ELSE IF uses_separator /\ CharAt(dtstr, month[1].p) # "-" THEN <<>>
    ELSE LET day == parse_digits(dtstr, month[1].p + (IF uses_separator THEN 1 ELSE 0), 2, 0)
         IN  IF day = <<>> THEN <<>> ELSE <<Ymd(year, month[1].var, day[1].var)>>

\* the date in the first len characters: <<>> when it does not parse
parse_isoformat_date(dtstr, len) ==
    LET year == parse_digits(dtstr, 0, 4, 0) IN
    IF year = <<>> THEN <<>>
    ELSE LET uses_separator == CharAt(dtstr, 4) = "-"
             p == IF uses_separator THEN 5 ELSE 4
         IN  IF CharAt(dtstr, p) = "W"
             THEN ParseIsoWeek(dtstr, len, year[1].var, uses_separator, p + 1)
             ELSE ParseMonthDay(dtstr, year[1].var, uses_separator, p)

\* rv is 0 at the end of the string, 1 before it and negative for a failure
Hmsf(rv, vals, microsecond) ==
    [rv |-> rv, hour |-> vals[1], minute |-> vals[2], second |-> vals[3],
     microsecond |-> microsecond]

FRACTION_CORRECTION == <<100000, 10000, 1000, 100, 10, 1>>

\* the fractional component from position p on
ParseFraction(tstr, p, p_end, vals) ==
    LET to_parse == Min(p_end - p, 6)
        digits == parse_digits(tstr, p, to_parse, 0)
    IN  IF to_parse <= 0 \/ digits = <<>> THEN Hmsf(-3, vals, 0)
        ELSE Hmsf(IF CharAt(tstr, DigitsFrom(tstr, digits[1].p)) # "" THEN 1 ELSE 0, vals,
                  digits[1].var * FRACTION_CORRECTION[to_parse])

\* pass i of the loop over [HH[:?MM[:?SS]]]
RECURSIVE ParseHhMmSs(_, _, _, _, _, _)
ParseHhMmSs(tstr, p, p_end, i, vals, has_separator) ==
    IF i = 3 THEN ParseFraction(tstr, p, p_end, vals)
    ELSE LET digits == parse_digits(tstr, p, 2, 0) IN
         IF digits = <<>> THEN Hmsf(-3, vals, 0)
         ELSE LET parsed == [vals EXCEPT ![i + 1] = digits[1].var]
                  c == CharAt(tstr, digits[1].p)
                  next == digits[1].p + 1
                  separated == IF i = 0 THEN c = ":" ELSE has_separator
              IN  IF next >= p_end THEN Hmsf(IF c # "" THEN 1 ELSE 0, parsed, 0)
                  ELSE IF separated /\ c = ":"
                  THEN ParseHhMmSs(tstr, next, p_end, i + 1, parsed, separated)
                  ELSE IF c \in {".", ","} THEN ParseFraction(tstr, next, p_end, parsed)
                  ELSE IF ~separated
                  THEN ParseHhMmSs(tstr, next - 1, p_end, i + 1, parsed, separated)
                  ELSE Hmsf(-4, parsed, 0)

parse_hh_mm_ss_ff(tstr, p, p_end) == ParseHhMmSs(tstr, p, p_end, 0, <<0, 0, 0>>, TRUE)

TimeOfDay(rv, time, tzoffset, tzmicrosecond) ==
    [rv |-> rv, hour |-> time.hour, minute |-> time.minute, second |-> time.second,
     microsecond |-> time.microsecond, tzoffset |-> tzoffset,
     tzmicrosecond |-> tzmicrosecond]

\* the offset behind the sign at tzinfo_pos
ParseOffset(tstr, time, tzinfo_pos) ==
    LET tzsign == IF CharAt(tstr, tzinfo_pos) = "-" THEN -1 ELSE 1
        tz == parse_hh_mm_ss_ff(tstr, tzinfo_pos + 1, Len(tstr))
    IN  TimeOfDay(IF tz.rv # 0 THEN -5 ELSE 1, time,
                  tzsign * (tz.hour * 3600 + tz.minute * 60 + tz.second),
                  tzsign * tz.microsecond)

\* rv is 0 without an offset, 1 with one and negative for a failure
parse_isoformat_time(tstr) ==
    LET marks == {k \in 0..(Len(tstr) - 1) : CharAt(tstr, k) \in {"Z", "+", "-"}}
        tzinfo_pos == IF marks # {} THEN MinOf(marks)
                      ELSE IF Len(tstr) = 0 THEN 1 ELSE Len(tstr)
        time == parse_hh_mm_ss_ff(tstr, 0, tzinfo_pos)
    IN  IF time.rv < 0 THEN TimeOfDay(time.rv, time, 0, 0)
        ELSE IF tzinfo_pos = Len(tstr)
        THEN TimeOfDay(IF time.rv = 1 THEN -5 ELSE 0, time, 0, 0)
        ELSE IF CharAt(tstr, tzinfo_pos) = "Z"
        THEN TimeOfDay(IF CharAt(tstr, tzinfo_pos + 1) # "" THEN -5 ELSE 1, time, 0, 0)
        ELSE ParseOffset(tstr, time, tzinfo_pos)

Midnight == TimeOfDay(0, Hmsf(0, <<0, 0, 0>>, 0), 0, 0)

timedelta(seconds, microseconds) ==
    [seconds |-> seconds + (IF microseconds < 0 THEN -1 ELSE 0),
     microseconds |-> microseconds % 1000000]

\* timezone.utc for the offset of 0 seconds
tzinfo_from_isoformat_results(time) ==
    IF time.rv # 1 THEN <<>>
    ELSE IF time.tzoffset = 0 THEN <<timedelta(0, 0)>>
    ELSE <<timedelta(time.tzoffset, time.tzmicrosecond)>>

\* timezone(offset) takes an offset strictly between -24 and 24 hours
ValidOffset(tzinfo) ==
    tzinfo # <<>> =>
        /\ tzinfo[1].seconds < 86400
        /\ tzinfo[1].seconds >= -86400
        /\ ~(tzinfo[1].seconds = -86400 /\ tzinfo[1].microseconds = 0)

ValidDate(date) ==
    /\ date.year >= 1 /\ date.year <= 9999
    /\ date.month >= 1 /\ date.month <= 12
    /\ date.day >= 1 /\ date.day <= days_in_month(date.year, date.month)

ValidTime(time) == time.hour <= 23 /\ time.minute <= 59 /\ time.second <= 59

datetime(date, time, tzinfo) ==
    IF ~ValidOffset(tzinfo) \/ ~ValidDate(date) \/ ~ValidTime(time) THEN ValueError
    ELSE [year |-> date.year, month |-> date.month, day |-> date.day,
          hour |-> time.hour, minute |-> time.minute, second |-> time.second,
          microsecond |-> time.microsecond, tzinfo |-> tzinfo]

DateAndTime(date, time) ==
    IF date = <<>> \/ time.rv < 0 THEN ValueError
    ELSE datetime(date[1], time, tzinfo_from_isoformat_results(time))

fromisoformat(dtstr) ==
    LET separator_location == _find_isoformat_datetime_separator(dtstr) IN
    IF Len(dtstr) < 7 \/ separator_location < 0 THEN ValueError
    ELSE DateAndTime(parse_isoformat_date(dtstr, separator_location),
                     IF Len(dtstr) > separator_location
                     THEN parse_isoformat_time(SubSeq(dtstr, separator_location + 2, Len(dtstr)))
                     ELSE Midnight)

\* datetime - timedelta(seconds=seconds), for a naive datetime
DatetimeMinus(dt, seconds) ==
    LET total == dt.hour * 3600 + dt.minute * 60 + dt.second - seconds
        date == ord_to_ymd(ymd_to_ord(dt.year, dt.month, dt.day) + total \div 86400)
        left == total % 86400
    IN  [dt EXCEPT !.year = date.year, !.month = date.month, !.day = date.day,
                   !.hour = left \div 3600, !.minute = (left % 3600) \div 60,
                   !.second = left % 60]

\* UnifiedIdentity(**fields): the fields of models.UnifiedIdentity, as the
\* document identity.dict() stores; a field not given takes its default
UnifiedIdentityDefaults ==
    [provider |-> None, roles |-> <<>>, mfaEnabled |-> FALSE, lastLogin |-> <<>>,
     isActive |-> TRUE, riskScore |-> 0, linkedAccounts |-> <<>>,
     groupMembership |-> <<>>, privilegeTier |-> "low", exposureLevel |-> FloatZero,
     attackPathCount |-> 0, blastRadius |-> 0, permissions |-> <<>>,
     cloudAccounts |-> <<>>]

FieldOr(fields, name) ==
    IF name \in DOMAIN fields THEN fields[name] ELSE UnifiedIdentityDefaults[name]

UnifiedIdentity(fields) ==
    [id |-> fields.id, email |-> fields.email, source |-> fields.source,
     provider |-> FieldOr(fields, "provider"), roles |-> FieldOr(fields, "roles"),
     mfaEnabled |-> FieldOr(fields, "mfaEnabled"),
     lastLogin |-> FieldOr(fields, "lastLogin"),
     isActive |-> FieldOr(fields, "isActive"), riskScore |-> FieldOr(fields, "riskScore"),
     linkedAccounts |-> FieldOr(fields, "linkedAccounts"),
     groupMembership |-> FieldOr(fields, "groupMembership"),
     privilegeTier |-> FieldOr(fields, "privilegeTier"),
     exposureLevel |-> FieldOr(fields, "exposureLevel"),
     attackPathCount |-> FieldOr(fields, "attackPathCount"),
     blastRadius |-> FieldOr(fields, "blastRadius"),
     permissions |-> FieldOr(fields, "permissions"),
     cloudAccounts |-> FieldOr(fields, "cloudAccounts")]

\* datetime.fromisoformat(raw_data[key].replace("Z", "+00:00"))
\*     if raw_data.get(key) else None
\* An Optional[datetime] is the sequence of at most one datetime; the
\* expression gives <<ValueError>> when fromisoformat raises.
LastLogin(raw_data, key) ==
    IF GetOr(raw_data, key, None) \in {None, ""} THEN <<>>
    ELSE <<fromisoformat(replace(raw_data[key], "Z", "+00:00"))>>

\* round(min(risk_score, 1.0), 2), in hundredths
RoundedRisk(risk_score) ==
    FloatRound(IF FloatLess(FloatOfInt(1), risk_score) THEN FloatOfInt(1) ELSE risk_score, 2)

OKTA_BASE_RISK == FloatLiteral(1, 10)
OKTA_NO_MFA_RISK == FloatLiteral(7, 10)
OKTA_ADMIN_RISK == FloatLiteral(2, 10)

OktaRisk(mfa, roles) ==
    LET base == OKTA_BASE_RISK
        no_mfa == IF ~mfa THEN FloatAdd(base, OKTA_NO_MFA_RISK) ELSE base
    IN  IF "Super Admin" \in Range(roles) THEN FloatAdd(no_mfa, OKTA_ADMIN_RISK) ELSE no_mfa

\* UnifiedIdentity(...) of OktaConnector.normalize, its arguments evaluated in
\* the order they are written: the first that raises ends the call
OktaIdentity(raw_data, lastLogin) ==
    IF "id" \notin DOMAIN raw_data THEN KeyError
    ELSE IF "profile" \notin DOMAIN raw_data THEN KeyError
    ELSE IF "email" \notin DOMAIN raw_data.profile THEN KeyError
    ELSE IF lastLogin = <<ValueError>> THEN ValueError
    ELSE IF "status" \notin DOMAIN raw_data THEN KeyError
    ELSE UnifiedIdentity(
             [id |-> raw_data.id, email |-> raw_data.profile.email, source |-> "okta",
              roles |-> GetOr(raw_data, "assigned_roles", <<>>),
              mfaEnabled |-> GetOr(raw_data, "mfa_registered", FALSE),
              lastLogin |-> lastLogin,
              isActive |-> raw_data.status = "ACTIVE",
              riskScore |-> RoundedRisk(OktaRisk(GetOr(raw_data, "mfa_registered", FALSE),
                                                 GetOr(raw_data, "assigned_roles", <<>>))),
              linkedAccounts |-> <<>>,
              groupMembership |-> GetOr(raw_data, "groups", <<>>)])

\* OktaConnector.normalize
OktaNormalize(raw_data) == OktaIdentity(raw_data, LastLogin(raw_data, "lastLogin"))

AWS_BASE_RISK == FloatLiteral(5, 100)
AWS_NO_MFA_RISK == FloatLiteral(4, 10)
AWS_ADMIN_RISK == FloatLiteral(2, 10)

AwsRisk(mfa, roles) ==
    LET base == AWS_BASE_RISK
        no_mfa == IF ~mfa THEN FloatAdd(base, AWS_NO_MFA_RISK) ELSE base
    IN  IF "AdministratorAccess" \in Range(roles) THEN FloatAdd(no_mfa, AWS_ADMIN_RISK)
        ELSE no_mfa

\* UnifiedIdentity(...) of AWSConnector.normalize
AwsIdentity(raw_data, lastLogin) ==
    IF "UserName" \notin DOMAIN raw_data THEN KeyError
    ELSE IF "UserId" \notin DOMAIN raw_data THEN KeyError
    ELSE IF lastLogin = <<ValueError>> THEN ValueError
    ELSE UnifiedIdentity(
             [id |-> raw_data.UserId,
              email |-> IF Contains("@", raw_data.UserName) THEN raw_data.UserName
                        ELSE raw_data.UserName \o "@company.aws",
              source |-> "aws",
              roles |-> GetOr(raw_data, "Roles", <<>>),
              mfaEnabled |-> GetOr(raw_data, "MfaEnabled", FALSE),
              lastLogin |-> lastLogin,
              isActive |-> GetOr(raw_data, "Status", None) = "Active",
              riskScore |-> RoundedRisk(AwsRisk(GetOr(raw_data, "MfaEnabled", FALSE),
                                                GetOr(raw_data, "Roles", <<>>))),
              linkedAccounts |-> <<>>,
              groupMembership |-> GetOr(raw_data, "Groups", <<>>)])

\* AWSConnector.normalize
AwsNormalize(raw_data) == AwsIdentity(raw_data, LastLogin(raw_data, "PasswordLastUsed"))

(***************************************************************************)
(* GCPConnector.normalize (connectors/gcp.py).  risk_score is a float that *)
(* holds a whole number; riskScore is in hundredths and exposureLevel is   *)
(* the float risk_score * 0.7.                                             *)
(***************************************************************************)
GCP_PRIVILEGED_ROLES ==
    <<"roles/owner", "roles/editor", "roles/iam.securityAdmin",
      "roles/resourcemanager.projectIamAdmin">>
GCP_IAM_ADMIN_ROLES == <<"roles/iam.securityadmin", "roles/resourcemanager.projectiamadmin">>

GCP_BASE_RISK == 10
GCP_OWNER_RISK == 80
GCP_EDITOR_RISK == 60
GCP_IAM_ADMIN_RISK == 50
GCP_ACTIVE_KEY_RISK == 40
GCP_RISK_CAP == 100
GCP_MEDIUM_ROLES == 2
GCP_EXPOSURE_SHARE == FloatLiteral(7, 10)

\* roles_lower = [r.lower() for r in roles]
LowerAll(roles) == [k \in 1..Len(roles) |-> lower(roles[k])]

\* the points of the if/elif chain over the roles
GcpRolePoints(roles_lower) ==
    IF "roles/owner" \in Range(roles_lower) THEN GCP_OWNER_RISK
    ELSE IF "roles/editor" \in Range(roles_lower) THEN GCP_EDITOR_RISK
    ELSE IF \E r \in Range(roles_lower) : lower(r) \in Range(GCP_IAM_ADMIN_ROLES)
    THEN GCP_IAM_ADMIN_RISK
    ELSE 0

GcpKeyPoints(is_sa, has_active_keys) ==
    IF is_sa /\ has_active_keys THEN GCP_ACTIVE_KEY_RISK ELSE 0

\* p_tier of GCPConnector.normalize
GcpTier(roles, is_high_risk) ==
    IF "roles/owner" \in Range(LowerAll(roles)) THEN "critical"
    ELSE IF is_high_risk \/ \E r \in Range(roles) : r \in Range(GCP_PRIVILEGED_ROLES)
    THEN "high"
    ELSE IF Len(roles) > GCP_MEDIUM_ROLES THEN "medium"
    ELSE "low"

\* datetime.utcnow() of a sync
SyncUtcNow ==
    [year |-> 2026, month |-> 3, day |-> 1, hour |-> 0, minute |-> 30, second |-> 15,
     microsecond |-> 250000, tzinfo |-> <<>>]

\* UnifiedIdentity(...) of GCPConnector.normalize
GcpIdentity(email, roles, is_sa, has_active_keys, project_id) ==
    LET role_points == GcpRolePoints(LowerAll(roles))
        key_points == GcpKeyPoints(is_sa, has_active_keys)
        risk_score == GCP_BASE_RISK + role_points + key_points
    IN  UnifiedIdentity(
            [id |-> "gcp-" \o email, email |-> email, source |-> "gcp", roles |-> roles,
             mfaEnabled |-> TRUE, lastLogin |-> <<SyncUtcNow>>, isActive |-> TRUE,
             riskScore |-> 100 * Min(risk_score, GCP_RISK_CAP),
             linkedAccounts |-> <<>>, groupMembership |-> <<>>,
             privilegeTier |-> GcpTier(roles, role_points > 0 \/ key_points > 0),
             exposureLevel |-> FloatMul(FloatOfInt(risk_score), GCP_EXPOSURE_SHARE),
             cloudAccounts |-> <<project_id>>])

\* GCPConnector.normalize
GcpNormalize(raw_data, env) ==
    IF \E key \in {"email", "roles", "type", "has_active_keys"} : key \notin DOMAIN raw_data
    THEN KeyError
    ELSE GcpIdentity(raw_data.email, raw_data.roles, raw_data.type = "serviceAccount",
                     raw_data.has_active_keys,
                     IF "GCP_PROJECT_ID" \in DOMAIN env THEN env.GCP_PROJECT_ID
                     ELSE "gcp-project")

(***************************************************************************)
(* GitHubConnector.normalize (connectors/github.py).  Every field is read  *)
(* with .get, so the call does not raise.  risk_score is a float that      *)
(* holds a whole number; riskScore is in hundredths and exposureLevel is   *)
(* the float risk_score * 0.6.  The id of a record is an int, and          *)
(* two_factor_authentication, site_admin and suspended are bools.          *)
(***************************************************************************)
GITHUB_BASE_RISK == 15
GITHUB_ADMIN_RISK == 35
GITHUB_NO_MFA_RISK == 40
GITHUB_RISK_CAP == 100
GITHUB_EXPOSURE_SHARE == FloatLiteral(6, 10)

\* roles, with `if not roles: roles = ["Member"]`
GithubRoles(org_role, is_site_admin) ==
    LET roles == (IF org_role = "admin" THEN <<"Org Admin">> ELSE <<>>)
                 \o (IF is_site_admin THEN <<"Site Admin">> ELSE <<>>)
    IN  IF roles = <<>> THEN <<"Member">> ELSE roles

GithubRisk(is_admin, mfa) ==
    Min(GITHUB_BASE_RISK + (IF is_admin THEN GITHUB_ADMIN_RISK ELSE 0)
                         + (IF ~mfa THEN GITHUB_NO_MFA_RISK ELSE 0),
        GITHUB_RISK_CAP)

GithubTier(is_admin, roles) ==
    IF is_admin THEN "high" ELSE IF Len(roles) > 1 THEN "medium" ELSE "low"

\* GitHubConnector.normalize
GithubNormalize(raw_data) ==
    LET login == GetOr(raw_data, "login", "unknown")
        uid == IF "id" \in DOMAIN raw_data THEN ToString(raw_data.id) ELSE "0"
        email == GetOr(raw_data, "email", None)
        org_role == GetOr(raw_data, "org_role", "member")
        is_site_admin == GetOr(raw_data, "site_admin", FALSE)
        roles == GithubRoles(org_role, is_site_admin)
        is_admin == org_role = "admin" \/ is_site_admin
        mfa == GetOr(raw_data, "two_factor_authentication", TRUE)
        risk_score == GithubRisk(is_admin, mfa)
    IN  UnifiedIdentity(
            [id |-> "github-" \o uid,
             email |-> IF email \notin {None, ""} THEN email
                       ELSE login \o "@users.noreply.github.com",
             source |-> "github",
             roles |-> roles,
             mfaEnabled |-> mfa,
             lastLogin |-> <<SyncUtcNow>>,
             isActive |-> ~GetOr(raw_data, "suspended", FALSE),
             riskScore |-> 100 * risk_score,
             linkedAccounts |-> <<>>,
             groupMembership |-> <<>>,
             privilegeTier |-> GithubTier(is_admin, roles),
             exposureLevel |-> FloatMul(FloatOfInt(risk_score), GITHUB_EXPOSURE_SHARE),
             cloudAccounts |-> <<"github">>])

(***************************************************************************)
(* AzureConnector.normalize (connectors/azure.py) and                      *)
(* GitLabConnector.normalize (connectors/gitlab.py).  The id of a GitLab   *)
(* record is an int.                                                       *)
(***************************************************************************)
AZURE_BASE_RISK == FloatLiteral(5, 100)
AZURE_NO_MFA_RISK == FloatLiteral(5, 10)
AZURE_ADMIN_RISK == FloatLiteral(3, 10)

\* raw_data.get("mfaRegistration", {}).get("isMfaRegistered", False)
AzureMfa(raw_data) ==
    IF "mfaRegistration" \notin DOMAIN raw_data THEN FALSE
    ELSE GetOr(raw_data.mfaRegistration, "isMfaRegistered", FALSE)

AzureRisk(mfa, roles) ==
    LET base == AZURE_BASE_RISK
        no_mfa == IF ~mfa THEN FloatAdd(base, AZURE_NO_MFA_RISK) ELSE base
    IN  IF "Global Administrator" \in Range(roles) THEN FloatAdd(no_mfa, AZURE_ADMIN_RISK)
        ELSE no_mfa

\* UnifiedIdentity(...) of AzureConnector.normalize, its arguments evaluated
\* in the order they are written
AzureIdentity(raw_data, lastLogin) ==
    IF "id" \notin DOMAIN raw_data THEN KeyError
    ELSE IF "userPrincipalName" \notin DOMAIN raw_data THEN KeyError
    ELSE IF lastLogin = <<ValueError>> THEN ValueError
    ELSE UnifiedIdentity(
             [id |-> raw_data.id, email |-> raw_data.userPrincipalName,
              source |-> "azure",
              roles |-> GetOr(raw_data, "assignedRoles", <<>>),
              mfaEnabled |-> AzureMfa(raw_data),
              lastLogin |-> lastLogin,
              isActive |-> GetOr(raw_data, "accountEnabled", TRUE),
              riskScore |-> RoundedRisk(AzureRisk(AzureMfa(raw_data),
                                                  GetOr(raw_data, "assignedRoles", <<>>))),
              linkedAccounts |-> <<>>,
              groupMembership |-> GetOr(raw_data, "memberOf", <<>>)])

\* AzureConnector.normalize
AzureNormalize(raw_data) ==
    AzureIdentity(raw_data, LastLogin(raw_data, "lastSignInDateTime"))

GITLAB_BASE_RISK == FloatLiteral(4, 100)
GITLAB_NO_MFA_RISK == FloatLiteral(5, 10)
GITLAB_ADMIN_RISK == FloatLiteral(2, 10)

GitlabRisk(mfa, is_admin) ==
    LET base == GITLAB_BASE_RISK
        no_mfa == IF ~mfa THEN FloatAdd(base, GITLAB_NO_MFA_RISK) ELSE base
    IN  IF is_admin THEN FloatAdd(no_mfa, GITLAB_ADMIN_RISK) ELSE no_mfa

\* UnifiedIdentity(...) of GitLabConnector.normalize
GitlabIdentity(raw_data, lastLogin) ==
    IF "id" \notin DOMAIN raw_data THEN KeyError
    ELSE IF "email" \notin DOMAIN raw_data THEN KeyError
    ELSE IF lastLogin = <<ValueError>> THEN ValueError
    ELSE IF "state" \notin DOMAIN raw_data THEN KeyError
    ELSE UnifiedIdentity(
             [id |-> ToString(raw_data.id), email |-> raw_data.email,
              source |-> "gitlab",
              roles |-> IF GetOr(raw_data, "is_admin", FALSE) THEN <<"Owner">>
                        ELSE <<"Developer">>,
              mfaEnabled |-> GetOr(raw_data, "two_factor_enabled", FALSE),
              lastLogin |-> lastLogin,
              isActive |-> raw_data.state = "active",
              riskScore |-> RoundedRisk(GitlabRisk(GetOr(raw_data, "two_factor_enabled", FALSE),
                                                   GetOr(raw_data, "is_admin", FALSE))),
              linkedAccounts |-> <<>>,
              groupMembership |-> GetOr(raw_data, "groups", <<>>)])

\* GitLabConnector.normalize
GitlabNormalize(raw_data) ==
    GitlabIdentity(raw_data, LastLogin(raw_data, "last_sign_in_at"))

\* the normalize of the connector of a source; env is the environment of the
\* process
normalize(source, env, raw_data) ==
    IF source = "okta" THEN OktaNormalize(raw_data)
    ELSE IF source = "aws" THEN AwsNormalize(raw_data)
    ELSE IF source = "github" THEN GithubNormalize(raw_data)
    ELSE IF source = "azure" THEN AzureNormalize(raw_data)
    ELSE IF source = "gitlab" THEN GitlabNormalize(raw_data)
    ELSE GcpNormalize(raw_data, env)

(***************************************************************************)
(* What the providers answer.  The world of a deployment is what the       *)
(* program reads and does not own: the environment variables, the          *)
(* credential files, the batches the Okta, AWS, Azure and GitLab APIs and  *)
(* the responses the GitHub API may answer, the GCP project, the hash seed *)
(* of the Python process and the clock.                                    *)
(***************************************************************************)
\* the record of the simulation of OktaConnector.fetch_raw_data
OKTA_SIMULATION ==
    <<[id |-> "okta-u1",
       profile |-> [email |-> "admin@company.com", login |-> "admin@company.com"],
       status |-> "ACTIVE", lastLogin |-> "2026-02-20T10:00:00Z",
       mfa_registered |-> TRUE, assigned_roles |-> <<"Super Admin", "App Admin">>,
       groups |-> <<"Admins", "IT-Support", "Global-Access">>]>>

\* the record of the simulation of AWSConnector.fetch_raw_data
AWS_SIMULATION ==
    <<[UserName |-> "cloud-admin", UserId |-> "aws-u1",
       Arn |-> "arn:aws:iam::123456789012:user/cloud-admin",
       CreateDate |-> "2025-01-01T00:00:00Z", PasswordLastUsed |-> "2026-02-20T08:00:00Z",
       MfaEnabled |-> TRUE, Roles |-> <<"AdministratorAccess">>,
       Groups |-> <<"Cloud-Ops", "Security-Admins">>, Status |-> "Active"]>>

\* users as the Okta API lists them
OktaUser(name, mfa, roles, lastLogin, groups) ==
    [id |-> "okta-" \o name, profile |-> [email |-> name \o "@company.com"],
     status |-> "ACTIVE", lastLogin |-> lastLogin, mfa_registered |-> mfa,
     assigned_roles |-> roles, groups |-> groups]
OktaAdmin ==
    OktaUser("admin", TRUE, <<"Super Admin", "App Admin">>, "2026-02-20T10:00:00Z",
             <<"Admins", "IT-Support", "Global-Access">>)
\* a user who never logged in, and a suspended user with the fields of the
\* users API only
OktaDev == OktaUser("dev", FALSE, <<>>, None, <<>>)
OktaPlain ==
    [id |-> "00u1", profile |-> [email |-> "plain@company.com", login |-> "plain"],
     status |-> "SUSPENDED", lastLogin |-> "2026-01-31T23:59:59.120Z"]
\* a user record without its id, and one whose last login is no ISO date
OktaMalformed == [profile |-> [email |-> "ghost@company.com"], status |-> "ACTIVE"]
OktaBadLogin == OktaUser("temp", TRUE, <<>>, "2026-02-20 10h", <<>>)

\* users as AWSConnector.fetch_raw_data returns them: MfaEnabled and Status
\* are set for every user
AwsUser(name, mfa, roles, PasswordLastUsed, groups) ==
    [UserName |-> name, UserId |-> "aws-" \o name,
     PasswordLastUsed |-> PasswordLastUsed, MfaEnabled |-> mfa, Roles |-> roles,
     Groups |-> groups, Status |-> "Active"]
AwsAdmin ==
    AwsUser("cloud-admin", TRUE, <<"AdministratorAccess">>, "2026-02-20T08:00:00Z",
            <<"Cloud-Ops", "Security-Admins">>)
AwsDev == AwsUser("dev@company.com", FALSE, <<>>, "", <<>>)
\* a user who never used a password, with the fields of list_users only
AwsPlain ==
    [UserName |-> "ci", UserId |-> "AIDACI", Arn |-> "arn:aws:iam::123456789012:user/ci",
     MfaEnabled |-> FALSE, Status |-> "Active"]
\* a user record without its UserId, and one whose last use is no ISO date
AwsMalformed == [UserName |-> "ghost", MfaEnabled |-> FALSE, Status |-> "Active"]
AwsBadLogin == AwsUser("temp", TRUE, <<>>, "20/02/2026", <<>>)

\* the record of the simulation of AzureConnector.fetch_raw_data
AZURE_SIMULATION ==
    <<[id |-> "azure-u1", userPrincipalName |-> "admin@company.onmicrosoft.com",
       displayName |-> "Azure Admin", accountEnabled |-> TRUE,
       assignedRoles |-> <<"Global Administrator", "Security Administrator">>,
       mfaRegistration |-> [isMfaRegistered |-> TRUE],
       lastSignInDateTime |-> "2026-02-20T11:00:00Z",
       memberOf |-> <<"Tenant-Admins", "Compliance-Group">>]>>

\* the record of the simulation of GitLabConnector.fetch_raw_data
GITLAB_SIMULATION ==
    <<[id |-> 500, username |-> "gl-admin", email |-> "admin@company.com",
       state |-> "active", is_admin |-> TRUE,
       last_sign_in_at |-> "2026-02-20T11:45:00Z", two_factor_enabled |-> TRUE,
       groups |-> <<"root-group", "security-team">>]>>

\* users as the Microsoft Graph API lists them: an administrator without
\* MFA, a disabled guest with the fields of the users API only, a record
\* without its userPrincipalName, and one whose last sign-in is no ISO date
AzureAdmin ==
    [id |-> "az-1", userPrincipalName |-> "root@corp.onmicrosoft.com",
     accountEnabled |-> TRUE, assignedRoles |-> <<"Global Administrator">>,
     mfaRegistration |-> [isMfaRegistered |-> FALSE],
     lastSignInDateTime |-> "2026-02-19T07:30:00Z", memberOf |-> <<"Tenant-Admins">>]
AzureGuest ==
    [id |-> "az-2", userPrincipalName |-> "guest@corp.onmicrosoft.com",
     displayName |-> "Guest", accountEnabled |-> FALSE]
AzureMalformed == [id |-> "az-3", displayName |-> "Ghost"]
AzureBadLogin ==
    [id |-> "az-4", userPrincipalName |-> "temp@corp.onmicrosoft.com",
     lastSignInDateTime |-> "yesterday"]

\* users as the GitLab API lists them: an administrator without two-factor
\* authentication, a blocked developer who never signed in, a record
\* without its email, and one whose last sign-in is no ISO date
GitlabAdmin ==
    [id |-> 1, username |-> "root", email |-> "root@corp.io", state |-> "active",
     is_admin |-> TRUE, last_sign_in_at |-> "2026-02-18T09:15:00.250Z",
     two_factor_enabled |-> FALSE, groups |-> <<"root-group">>]
GitlabDev ==
    [id |-> 42, username |-> "dev", email |-> "dev@corp.io", state |-> "blocked",
     last_sign_in_at |-> None, two_factor_enabled |-> TRUE]
GitlabMalformed == [id |-> 43, username |-> "ghost", state |-> "active"]
GitlabBadLogin ==
    [id |-> 44, username |-> "temp", email |-> "temp@corp.io", state |-> "active",
     last_sign_in_at |-> "18/02/2026"]

\* a response of the GitHub API, or the exception the request raises; json
\* is response.json()
Response(status_code, json) == [raises |-> FALSE, status_code |-> status_code, json |-> json]
RequestError(json) == [raises |-> TRUE, status_code |-> 0, json |-> json]

\* members as /orgs/{org}/members lists them, and the user of /user
GithubCat == [login |-> "cat", id |-> 7, site_admin |-> FALSE]
GithubRoot == [login |-> "root", id |-> 1, site_admin |-> TRUE]
GithubUser ==
    [login |-> "cat", id |-> 7, email |-> "cat@co", site_admin |-> FALSE,
     two_factor_authentication |-> FALSE]
GithubHidden == [login |-> "ghost", id |-> 9, email |-> None, suspended |-> TRUE]
GithubMessage == [message |-> "Not Found"]

\* what the GitHub API may answer to the requests of fetch_raw_data
GithubAnswers ==
    [members |-> {RequestError(<<>>), Response(403, <<>>), Response(200, <<>>),
                  Response(200, <<GithubCat>>), Response(200, <<GithubRoot, GithubCat>>)},
     user |-> {RequestError(GithubMessage), Response(401, GithubMessage),
               Response(200, GithubUser), Response(200, GithubHidden)},
     memberships |-> {RequestError(GithubMessage), Response(404, GithubMessage),
                      Response(200, [role |-> "admin", state |-> "active"]),
                      Response(200, [state |-> "pending"])}]

\* the batches an API may answer
RawBatches(source) ==
    IF source = "azure"
    THEN {<<>>,
          <<AzureAdmin>>,
          <<AzureGuest, AzureAdmin>>,
          <<AzureMalformed, AzureGuest>>,
          <<AzureAdmin, AzureBadLogin>>}
    ELSE IF source = "gitlab"
    THEN {<<>>,
          <<GitlabAdmin>>,
          <<GitlabDev, GitlabAdmin>>,
          <<GitlabAdmin, GitlabMalformed>>,
          <<GitlabBadLogin, GitlabDev>>}
    ELSE IF source = "okta"
    THEN {<<>>,
          <<OktaAdmin>>,
          <<OktaAdmin, OktaDev>>,
          <<OktaPlain, OktaAdmin>>,
          <<OktaAdmin, OktaMalformed, OktaDev>>,
          <<OktaAdmin, OktaBadLogin>>}
    ELSE {<<>>,
          <<AwsAdmin>>,
          <<AwsAdmin, AwsDev>>,
          <<AwsPlain, AwsDev>>,
          <<AwsMalformed, AwsAdmin>>,
          <<AwsBadLogin, AwsAdmin>>}

\* a service account key, a service account and a role binding of a project
Key(key_type, disabled) == [key_type |-> key_type, disabled |-> disabled]
ServiceAccount(email, keys) == [email |-> email, keys |-> keys]
Binding(role, members) == [role |-> role, members |-> members]

\* a project whose only user-managed key is disabled
ProjectCorp ==
    [bindings |->
         <<Binding("roles/owner", <<"user:dev@corp.io", "group:ops@corp.io">>),
           Binding("roles/editor", <<"serviceAccount:bot@corp.io", "user:dev@corp.io">>)>>,
     service_accounts |->
         <<ServiceAccount("bot@corp.io",
                          <<Key("SYSTEM_MANAGED", FALSE), Key("USER_MANAGED", TRUE)>>)>>]

\* a project with an active key, an IAM admin in capitals and a user of
\* three plain roles
ProjectLab ==
    [bindings |->
         <<Binding("roles/viewer", <<"serviceAccount:bot@corp.io", "user:dev@corp.io">>),
           Binding("roles/IAM.securityAdmin", <<"user:cat@co">>),
           Binding("roles/browser", <<"user:dev@corp.io">>),
           Binding("roles/logging.viewer", <<"user:dev@corp.io", "domain:corp.io">>)>>,
     service_accounts |->
         <<ServiceAccount("idle@corp.io", <<>>),
           ServiceAccount("bot@corp.io", <<Key("USER_MANAGED", FALSE)>>)>>]

\* a project of one service account
ProjectSolo ==
    [bindings |-> <<Binding("roles/viewer", <<"serviceAccount:bot@corp.io">>)>>,
     service_accounts |-> <<ServiceAccount("bot@corp.io", <<Key("USER_MANAGED", TRUE)>>)>>]

ProjectEmpty == [bindings |-> <<>>, service_accounts |-> <<>>]

NoEnv == [name \in {} |-> ""]
GCP_CREDENTIALS_FILE == "/run/secrets/gcp.json"
GcpEnv == [GCP_PROJECT_ID |-> "be4-prod", GOOGLE_APPLICATION_CREDENTIALS |-> GCP_CREDENTIALS_FILE]

\* time.time() when a sync starts and how long a fetch takes, in milliseconds
StartTimes == {1000, 86400000}
FetchDurations == {0, 150}

\* the calls the clients of the service make: the current_user_email
\* arguments of sync_all, the arguments of get_all_identities and whether
\* POST /sync of the GCP routes is called
Clients(sync_all, get_all_identities, sync_gcp) ==
    [sync_all |-> sync_all, get_all_identities |-> get_all_identities,
     sync_gcp |-> sync_gcp]
NoClients == Clients({}, {}, FALSE)

World(env, files, batches, project, hashseed, time, durations, clients) ==
    [env |-> env, files |-> files, batches |-> batches, project |-> project,
     hashseed |-> hashseed, time |-> time, durations |-> durations, clients |-> clients]

\* os.getenv(name)
getenv(env, name) == IF name \in DOMAIN env THEN env[name] ELSE None

\* bool(value) of an Optional[str]
Truthy(value) == value \notin {None, ""}

\* a or b of two Optional[str]
Or(a, b) == IF Truthy(a) THEN a ELSE b

(***************************************************************************)
(* BaseConnector.sync, one await at a time.  c.pc is the await the         *)
(* coroutine stands at: "wait" (rate_limiter.wait), "fetch" and the awaits *)
(* inside fetch_raw_data, "sleeping" (asyncio.sleep of the except branch); *)
(* "returned" and "raised" end it.  c.clock is time.time().                *)
(***************************************************************************)
NoFetch == [sa_keys_status |-> <<>>, sa |-> 0, members |-> <<>>, member |-> 0, results |-> <<>>]

\* BaseConnector.__init__ and the first lines of sync
NewConnector(source, credentials, now) ==
    [source |-> source, credentials |-> credentials,
     retry_limit |-> RETRY_LIMIT, base_delay |-> BASE_DELAY,
     rate_limiter |-> [delay |-> 1000 \div REQUESTS_PER_SECOND, last_request |-> 0],
     attempt |-> 0, pc |-> "wait", clock |-> now, fetch |-> NoFetch,
     normalized_identities |-> <<>>]

Sleep(by, delay) == [by |-> by, delay |-> delay]

\* the asyncio.sleep of RateLimiter.wait, 0 when it does not sleep
RateLimiterPause(c) ==
    LET elapsed == c.clock - c.rate_limiter.last_request IN
    IF elapsed < c.rate_limiter.delay THEN c.rate_limiter.delay - elapsed ELSE 0

\* RateLimiter.wait
RateLimiterWait(c) ==
    [c EXCEPT !.clock = @ + RateLimiterPause(c),
              !.rate_limiter.last_request = c.clock + RateLimiterPause(c),
              !.pc = "fetch"]

\* [self.normalize(data) for data in raw_identities]
NormalizeAll(source, env, raw_identities) ==
    [k \in 1..Len(raw_identities) |-> normalize(source, env, raw_identities[k])]

\* what fetch_raw_data did: it raised, or it returned raw_identities
Raised == [raised |-> TRUE, raw_identities |-> <<>>]
Returned(raw_identities) == [raised |-> FALSE, raw_identities |-> raw_identities]

\* a pass fails when its fetch raises or a record of its batch does not
\* normalize
PassFails(source, env, outcome) ==
    \/ outcome.raised
    \/ \E k \in 1..Len(outcome.raw_identities) :
          IsError(normalize(source, env, outcome.raw_identities[k]))

\* the pass of the loop of BaseConnector.sync ends: fetch_raw_data, which
\* took duration, raised or returned; then the list is normalized and
\* returned, or the except branch sleeps or raises
PassEnds(c, env, duration, outcome) ==
    LET fetched == [c EXCEPT !.clock = @ + duration, !.fetch = NoFetch] IN
    IF ~PassFails(c.source, env, outcome)
    THEN [fetched EXCEPT !.pc = "returned",
                         !.normalized_identities =
                             NormalizeAll(c.source, env, outcome.raw_identities)]
    ELSE IF c.attempt < c.retry_limit - 1 THEN [fetched EXCEPT !.pc = "sleeping"]
    ELSE [fetched EXCEPT !.pc = "raised"]

\* delay = self.base_delay * (2 ** attempt)
ConstantDelay(base_delay, attempt) == base_delay
BackoffDelay(base_delay, attempt) == base_delay * 2^attempt

\* asyncio.sleep(delay) of the except branch returns and the loop goes on
SleepDone(c) ==
    [c EXCEPT !.clock = @ + BackoffDelay(c.base_delay, c.attempt),
              !.attempt = @ + 1, !.pc = "wait"]

(***************************************************************************)
(* fetch_raw_data of the connectors.  A step is the completion of          *)
(* one await of the call: [c |-> the connector after it, outcome |-> what  *)
(* the call did if the step ended it].  The boto3 calls of the AWS         *)
(* connector are synchronous, so the call is one step.                     *)
(***************************************************************************)
Step(c, outcome) == [c |-> c, outcome |-> outcome]

\* the calls that end with `raise e` or with `return`
Ended(c, outcomes) == {Step(c, <<outcome>>) : outcome \in outcomes}

\* `if not domain or not api_token`
OktaSimulated(credentials) ==
    \/ ~Truthy(GetOr(credentials, "domain", None))
    \/ ~Truthy(GetOr(credentials, "api_token", None))

\* OktaConnector.fetch_raw_data: the simulation, or client.get raises or
\* answers a batch
OktaFetch(c, w) ==
    IF OktaSimulated(c.credentials) THEN Ended(c, {Returned(OKTA_SIMULATION)})
    ELSE Ended(c, {Raised} \cup {Returned(batch) : batch \in w.batches.okta})

\* `if not aws_access_key or not aws_secret_key`
AwsSimulated(credentials) ==
    \/ ~Truthy(GetOr(credentials, "aws_access_key_id", None))
    \/ ~Truthy(GetOr(credentials, "aws_secret_access_key", None))

\* AWSConnector.fetch_raw_data
AwsFetch(c, w) ==
    IF AwsSimulated(c.credentials) THEN Ended(c, {Returned(AWS_SIMULATION)})
    ELSE Ended(c, {Raised} \cup {Returned(batch) : batch \in w.batches.aws})

\* s.replace(old, "")
RECURSIVE Removed(_, _)
Removed(s, old) ==
    IF Len(s) < Len(old) THEN s
    ELSE IF SubSeq(s, 1, Len(old)) = old THEN Removed(SubSeq(s, Len(old) + 1, Len(s)), old)
    ELSE SubSeq(s, 1, 1) \o Removed(SubSeq(s, 2, Len(s)), old)

\* a dict in insertion order: the sequence of its entries
Keys(dict) == {dict[k].key : k \in 1..Len(dict)}
Entry(dict, key) == CHOOSE k \in 1..Len(dict) : dict[k].key = key
Put(dict, key, value) ==
    IF key \in Keys(dict) THEN [dict EXCEPT ![Entry(dict, key)].value = value]
    ELSE Append(dict, [key |-> key, value |-> value])
Get(dict, key, default) ==
    IF key \in Keys(dict) THEN dict[Entry(dict, key)].value ELSE default

\* the (role, member) pairs of a policy in the order of the two loops
BindingPairs(bindings) ==
    Flatten([b \in 1..Len(bindings) |->
                [m \in 1..Len(bindings[b].members) |->
                    [role |-> bindings[b].role, member |-> bindings[b].members[m]]]])

\* one pass of the inner loop of `3. Process Bindings`; first is the entry
\* of an identity that is not in the map yet
AddMember(identities_map, role, email, first) ==
    LET known == Get(identities_map, email, first) IN
    Put(identities_map, email, [known EXCEPT !.roles = Append(@, role)])

\* the loops of `3. Process Bindings` of GCPConnector.fetch_raw_data
RECURSIVE ConnectorBindings(_, _, _, _)
ConnectorBindings(pairs, k, sa_keys_status, identities_map) ==
    IF k > Len(pairs) THEN identities_map
    ELSE LET member == pairs[k].member
             next ==
                 IF StartsWith(member, "user:")
                 THEN AddMember(identities_map, pairs[k].role, Removed(member, "user:"),
                                [roles |-> <<>>, type |-> "user",
                                 has_active_keys |->
                                     Get(sa_keys_status, Removed(member, "user:"), FALSE)])
                 ELSE IF StartsWith(member, "serviceAccount:")
                 THEN AddMember(identities_map, pairs[k].role,
                                Removed(member, "serviceAccount:"),
                                [roles |-> <<>>, type |-> "serviceAccount",
                                 has_active_keys |->
                                     Get(sa_keys_status, Removed(member, "serviceAccount:"),
                                         FALSE)])
                 ELSE identities_map
         IN  IF Computed(next) THEN ConnectorBindings(pairs, k + 1, sa_keys_status, next)
             ELSE next

\* [{"email": k, **v} for k, v in identities_map.items()]
GcpRawIdentities(bindings, sa_keys_status) ==
    LET identities_map == ConnectorBindings(BindingPairs(bindings), 1, sa_keys_status, <<>>) IN
    [k \in 1..Len(identities_map) |->
        [email |-> identities_map[k].key, roles |-> identities_map[k].value.roles,
         type |-> identities_map[k].value.type,
         has_active_keys |-> identities_map[k].value.has_active_keys]]

\* the loop over keys.keys: a user-managed key that is not disabled
HasActiveKey(keys) ==
    \E k \in 1..Len(keys) : keys[k].key_type = "USER_MANAGED" /\ ~keys[k].disabled

\* fetch_raw_data from `3. Process Bindings` to its return
GcpProcessed(c, w, sa_keys_status) ==
    Step(c, <<Returned(GcpRawIdentities(w.project.bindings, sa_keys_status))>>)

\* GCPConnector.fetch_raw_data: the await the call stands at completes; the
\* call raises when it cannot read the credentials file or the policy, and
\* goes on without key status when a call for the service accounts raises
GcpFetch(c, w) ==
    LET project_id == getenv(w.env, "GCP_PROJECT_ID")
        creds_path == getenv(w.env, "GOOGLE_APPLICATION_CREDENTIALS")
        sas == w.project.service_accounts
    IN  IF c.pc = "fetch"
        THEN IF ~Truthy(project_id) \/ ~Truthy(creds_path) THEN Ended(c, {Returned(<<>>)})
             ELSE IF creds_path \notin w.files THEN Ended(c, {Raised})
             ELSE Ended(c, {Raised}) \cup {Step([c EXCEPT !.pc = "list_service_accounts"], <<>>)}
        ELSE IF c.pc = "list_service_accounts"
        THEN {GcpProcessed(c, w, <<>>),
              IF sas = <<>> THEN GcpProcessed(c, w, <<>>)
              ELSE Step([c EXCEPT !.pc = "list_service_account_keys", !.fetch.sa = 1], <<>>)}
        ELSE LET sa == sas[c.fetch.sa]
                 status == Put(c.fetch.sa_keys_status, sa.email, HasActiveKey(sa.keys))
             IN  {GcpProcessed(c, w, c.fetch.sa_keys_status),
                  IF c.fetch.sa = Len(sas) THEN GcpProcessed(c, w, status)
                  ELSE Step([c EXCEPT !.fetch.sa = @ + 1, !.fetch.sa_keys_status = status],
                            <<>>)}

(***************************************************************************)
(* fetch_raw_data of the GitHub, Azure and GitLab connectors.  The GitHub  *)
(* connector awaits the members of the organisation ("fetch"), then the    *)
(* user of the token when the members are refused ("user"), or the         *)
(* repositories ("repos") and the membership of each member                *)
(* ("membership"); c.fetch holds members, the index of the member it asks  *)
(* about and results.  The Azure connector awaits the token ("fetch") and  *)
(* the users ("users").                                                    *)
(***************************************************************************)
\* self.credentials.get("token") or self.credentials.get("access_token")
\*     or os.getenv("GITHUB_TOKEN")
GithubToken(credentials, env) ==
    Or(Or(GetOr(credentials, "token", None), GetOr(credentials, "access_token", None)),
       getenv(env, "GITHUB_TOKEN"))

\* client.get of the members returned or raised
GithubAfterMembers(c, answer) ==
    IF answer.raises THEN Step(c, <<Raised>>)
    ELSE IF answer.status_code # 200 THEN Step([c EXCEPT !.pc = "user"], <<>>)
    ELSE Step([c EXCEPT !.pc = "repos", !.fetch.members = answer.json], <<>>)

\* client.get of the user returned or raised
GithubAfterUser(c, answer) ==
    IF answer.raises THEN Step(c, <<Raised>>)
    ELSE IF answer.status_code = 200
    THEN Step(c, <<Returned(<<SetField(SetField(answer.json, "org_role", "member"),
                                       "repo_admin", FALSE)>>)>>)
    ELSE Step(c, <<Returned(<<>>)>>)

\* client.get of the repositories returned, or raised into `except
\* Exception: pass`; its answer is not used
GithubAfterRepos(c) ==
    IF c.fetch.members = <<>> THEN Step(c, <<Returned(<<>>)>>)
    ELSE Step([c EXCEPT !.pc = "membership", !.fetch.member = 1], <<>>)

\* role of a member: "member" unless the membership answers 200
GithubRole(answer) ==
    IF ~answer.raises /\ answer.status_code = 200 THEN GetOr(answer.json, "role", "member")
    ELSE "member"

\* client.get of the membership of a member returned or raised, and
\* results.append({**member, "org_role": role, "provider": "github"})
GithubAfterMembership(c, answer) ==
    LET member == c.fetch.members[c.fetch.member]
        results == Append(c.fetch.results,
                          SetField(SetField(member, "org_role", GithubRole(answer)),
                                   "provider", "github"))
    IN  IF c.fetch.member = Len(c.fetch.members) THEN Step(c, <<Returned(results)>>)
        ELSE Step([c EXCEPT !.fetch.member = @ + 1, !.fetch.results = results], <<>>)

\* GitHubConnector.fetch_raw_data
GithubFetch(c, w) ==
    IF c.pc = "fetch"
    THEN IF ~Truthy(GithubToken(c.credentials, w.env)) THEN Ended(c, {Returned(<<>>)})
         ELSE {GithubAfterMembers(c, answer) : answer \in w.batches.github.members}
    ELSE IF c.pc = "user"
    THEN {GithubAfterUser(c, answer) : answer \in w.batches.github.user}
    ELSE IF c.pc = "repos" THEN {GithubAfterRepos(c)}
    ELSE {GithubAfterMembership(c, answer) : answer \in w.batches.github.memberships}

\* `if not tenant_id or not client_id or not client_secret`
AzureSimulated(credentials) ==
    \/ ~Truthy(GetOr(credentials, "tenant_id", None))
    \/ ~Truthy(GetOr(credentials, "client_id", None))
    \/ ~Truthy(GetOr(credentials, "client_secret", None))

\* AzureConnector.fetch_raw_data: the simulation, or client.post of the
\* token and then client.get of the users, each of which may raise
AzureFetch(c, w) ==
    IF c.pc = "users"
    THEN Ended(c, {Raised} \cup {Returned(batch) : batch \in w.batches.azure})
    ELSE IF AzureSimulated(c.credentials) THEN Ended(c, {Returned(AZURE_SIMULATION)})
    ELSE Ended(c, {Raised}) \cup {Step([c EXCEPT !.pc = "users"], <<>>)}

\* `if not token`
GitlabSimulated(credentials) == ~Truthy(GetOr(credentials, "token", None))

\* GitLabConnector.fetch_raw_data
GitlabFetch(c, w) ==
    IF GitlabSimulated(c.credentials) THEN Ended(c, {Returned(GITLAB_SIMULATION)})
    ELSE Ended(c, {Raised} \cup {Returned(batch) : batch \in w.batches.gitlab})

\* the completions of the await that fetch_raw_data stands at
FetchSteps(c, w) ==
    IF c.source = "okta" THEN OktaFetch(c, w)
    ELSE IF c.source = "aws" THEN AwsFetch(c, w)
    ELSE IF c.source = "github" THEN GithubFetch(c, w)
    ELSE IF c.source = "azure" THEN AzureFetch(c, w)
    ELSE IF c.source = "gitlab" THEN GitlabFetch(c, w)
    ELSE GcpFetch(c, w)

\* the await of fetch_raw_data completes; when it ends the call, the pass ends
AfterFetch(c, w, step, duration) ==
    IF step.outcome = <<>> THEN step.c
    ELSE PassEnds(step.c, w.env, duration, step.outcome[1])

AwaitsFetch(c) ==
    c.pc \in {"fetch", "list_service_accounts", "list_service_account_keys",
              "user", "repos", "membership", "users"}

(***************************************************************************)
(* The document store and IdentitySyncService (sync_service.py).           *)
(*                                                                         *)
(* A collection is the sequence of its documents in insertion order.  The  *)
(* credentials of a provider_configs document are a dict or a string:      *)
(* Dict(d) and Str(s).  A dict is a function from its keys.                *)
(***************************************************************************)
EmptyStore ==
    [unified_identities |-> <<>>, sync_history |-> <<>>, provider_configs |-> <<>>,
     faults |-> 0]

EmptyDict == [key \in {} |-> ""]
Dict(d) == [type |-> "dict", value |-> d]
Str(s) == [type |-> "str", value |-> s]

MatchesOn(doc, keys, identity) ==
    \A key \in keys : key \in DOMAIN doc /\ doc[key] = identity[key]

\* update_one(filter, {"$set": identity.dict()}, upsert=True): the first
\* document that matches the filter takes the fields of the identity, and
\* the identity is inserted when no document matches
UpsertIdentity(collection, keys, identity) ==
    LET hits == {k \in 1..Len(collection) : MatchesOn(collection[k], keys, identity)} IN
    IF hits = {} THEN Append(collection, identity)
    ELSE [collection EXCEPT ![MinOf(hits)] = identity]

CONNECTOR_FILTER == {"id", "source"}
DEMO_FILTER == {"id", "source", "provider"}

\* the documents of provider_configs whose source is source
OfSource(provider_configs, source) ==
    {k \in 1..Len(provider_configs) : GetOr(provider_configs[k], "source", None) = source}

\* config_collection.update_one({"source": source}, {"$set": {"last_sync": ...}})
SetLastSync(provider_configs, source, sync_time) ==
    IF OfSource(provider_configs, source) = {} THEN provider_configs
    ELSE [provider_configs EXCEPT ![MinOf(OfSource(provider_configs, source))] =
             SetField(@, "last_sync", <<sync_time>>)]

ConfigDoc(source, credentials, is_active) ==
    [source |-> source, credentials |-> credentials, is_active |-> is_active,
     last_sync |-> <<>>]

IdentitySources == {"aws", "azure", "gcp", "okta", "github", "gitlab", "hr", "demo"}

\* os.getenv(name, default)
getenv_default(env, name, default) == IF name \in DOMAIN env THEN env[name] ELSE default

\* _get_env_credentials
_get_env_credentials(env, source) ==
    IF source = "github"
    THEN IF Truthy(Or(getenv(env, "GITHUB_TOKEN"), getenv(env, "GITHUB_CLIENT_SECRET")))
         THEN [token |-> Or(getenv(env, "GITHUB_TOKEN"), getenv(env, "GITHUB_CLIENT_SECRET")),
               org |-> getenv_default(env, "GITHUB_ORG", "Be4Breach")]
         ELSE EmptyDict
    ELSE IF source = "gcp"
    THEN IF Truthy(getenv(env, "GOOGLE_APPLICATION_CREDENTIALS"))
            /\ Truthy(getenv(env, "GCP_PROJECT_ID"))
         THEN [creds_path |-> env.GOOGLE_APPLICATION_CREDENTIALS,
               project_id |-> env.GCP_PROJECT_ID]
         ELSE EmptyDict
    ELSE IF source = "aws"
    THEN IF Truthy(getenv(env, "AWS_ACCESS_KEY_ID"))
            /\ Truthy(getenv(env, "AWS_SECRET_ACCESS_KEY"))
         THEN [access_key_id |-> env.AWS_ACCESS_KEY_ID,
               secret_access_key |-> env.AWS_SECRET_ACCESS_KEY,
               region |-> getenv_default(env, "AWS_DEFAULT_REGION", "us-east-1")]
         ELSE EmptyDict
    ELSE IF source = "okta"
    THEN IF Truthy(getenv(env, "OKTA_DOMAIN")) /\ Truthy(getenv(env, "OKTA_API_TOKEN"))
         THEN [domain |-> env.OKTA_DOMAIN, api_token |-> env.OKTA_API_TOKEN]
         ELSE EmptyDict
    ELSE IF source = "azure"
    THEN IF Truthy(getenv(env, "AZURE_TENANT_ID")) /\ Truthy(getenv(env, "AZURE_CLIENT_ID"))
            /\ Truthy(getenv(env, "AZURE_CLIENT_SECRET"))
         THEN [tenant_id |-> env.AZURE_TENANT_ID, client_id |-> env.AZURE_CLIENT_ID,
               client_secret |-> env.AZURE_CLIENT_SECRET]
         ELSE EmptyDict
    ELSE EmptyDict

\* _get_env_configured_sources
_get_env_configured_sources(env) ==
    (IF Truthy(Or(getenv(env, "GITHUB_TOKEN"), getenv(env, "GITHUB_CLIENT_SECRET")))
     THEN <<"github">> ELSE <<>>)
    \o (IF Truthy(getenv(env, "GOOGLE_APPLICATION_CREDENTIALS"))
           /\ Truthy(getenv(env, "GCP_PROJECT_ID"))
        THEN <<"gcp">> ELSE <<>>)
    \o (IF Truthy(getenv(env, "AWS_ACCESS_KEY_ID"))
           /\ Truthy(getenv(env, "AWS_SECRET_ACCESS_KEY"))
        THEN <<"aws">> ELSE <<>>)
    \o (IF Truthy(getenv(env, "OKTA_DOMAIN")) /\ Truthy(getenv(env, "OKTA_API_TOKEN"))
        THEN <<"okta">> ELSE <<>>)
    \o (IF Truthy(getenv(env, "AZURE_TENANT_ID")) /\ Truthy(getenv(env, "AZURE_CLIENT_ID"))
        THEN <<"azure">> ELSE <<>>)

\* `not doc.get("credentials") or doc.get("credentials") == {}`
NoCredentials(doc) ==
    \/ "credentials" \notin DOMAIN doc
    \/ doc.credentials.type = "dict" /\ DOMAIN doc.credentials.value = {}
    \/ doc.credentials.type = "str" /\ doc.credentials.value = ""

\* a document whose credentials are empty takes those of the environment
WithEnvCredentials(doc, env) ==
    IF NoCredentials(doc)
    THEN SetField(doc, "credentials", Dict(_get_env_credentials(env, GetOr(doc, "source", ""))))
    ELSE doc

\* ProviderConfig(**doc): the list of the config, empty when the document
\* does not validate (its source is no IdentitySource or its credentials
\* are no dict)
ProviderConfig(doc) ==
    IF /\ "source" \in DOMAIN doc
       /\ doc.source \in IdentitySources
       /\ "credentials" \in DOMAIN doc
       /\ doc.credentials.type = "dict"
    THEN <<[source |-> doc.source, credentials |-> doc.credentials.value,
            is_active |-> GetOr(doc, "is_active", TRUE),
            last_sync |-> GetOr(doc, "last_sync", <<>>)]>>
    ELSE <<>>

TO_LIST_LENGTH == 100

\* find({"is_active": True}) and to_list(length=100)
FindActive(provider_configs) ==
    LET found == SelectSeq(provider_configs, LAMBDA doc : GetOr(doc, "is_active", FALSE)) IN
    SubSeq(found, 1, Min(Len(found), TO_LIST_LENGTH))

\* the configs of the documents read, in order
DocConfigs(docs, env) ==
    Flatten([k \in 1..Len(docs) |-> ProviderConfig(WithEnvCredentials(docs[k], env))])

\* the config of a provider of the environment that has no document:
\* `if creds:` skips the provider whose credentials come out empty
EnvConfig(env, env_source, existing_sources) ==
    IF env_source \notin existing_sources
       /\ DOMAIN _get_env_credentials(env, env_source) # {}
    THEN ProviderConfig([source |-> env_source,
                         credentials |-> Dict(_get_env_credentials(env, env_source)),
                         is_active |-> TRUE])
    ELSE <<>>

\* the configs of sync_all: the valid active documents, then the providers
\* configured by the environment that have no document
ActiveConfigs(db_available, provider_configs, env, find_fails) ==
    IF ~db_available THEN <<>>
    ELSE LET configs == IF find_fails THEN <<>>
                        ELSE DocConfigs(FindActive(provider_configs), env)
             existing_sources == {configs[k].source : k \in 1..Len(configs)}
             env_sources == _get_env_configured_sources(env)
         IN  configs \o Flatten([k \in 1..Len(env_sources) |->
                                    EnvConfig(env, env_sources[k], existing_sources)])

\* the sources get_connector has a connector for
ConnectorSources == {"okta", "aws", "github", "azure", "gcp", "gitlab"}

\* get_connector: the list of the connector, empty for None; the
\* credentials of a ProviderConfig are a dict
get_connector(config, now) ==
    IF config.source \in ConnectorSources
    THEN <<NewConnector(config.source, config.credentials, now)>>
    ELSE <<>>

\* `except Exception: return 0` of _sync_connector
CaughtResult(normalized_identities) == 0
SyncedResult(normalized_identities) == Len(normalized_identities)

\* the coroutine _sync_connector(config) up to its first await
NewTask(config, now) ==
    [source |-> config.source, connector |-> get_connector(config, now),
     pc |-> IF get_connector(config, now) = <<>> THEN "done" ELSE "sync",
     identities |-> <<>>, pending |-> {}, result |-> 0,
     raised |-> FALSE, completed |-> FALSE]

\* connector.sync() has returned or raised
AfterSync(task, c, db_available) ==
    IF c.pc = "raised"
    THEN [task EXCEPT !.connector = <<>>, !.pc = "done", !.raised = TRUE,
                      !.result = CaughtResult(<<>>)]
    ELSE LET synced == c.normalized_identities IN
         IF db_available
         THEN [task EXCEPT !.connector = <<>>, !.identities = synced,
                           !.pending = 1..Len(synced),
                           !.pc = IF synced = <<>> THEN "history" ELSE "update"]
         ELSE [task EXCEPT !.connector = <<>>, !.identities = synced, !.pc = "done",
                           !.completed = TRUE, !.result = SyncedResult(synced)]

\* a store operation of _sync_connector raised
StoreRaised(task) ==
    IF task.pc = "done" THEN task
    ELSE [task EXCEPT !.pc = "done", !.result = CaughtResult(task.identities)]

\* sum(risk_scores), from the left; a riskScore is in hundredths
RECURSIVE SumRisk(_, _, _)
SumRisk(risk_scores, k, total) ==
    IF Computed(total) /\ k > Len(risk_scores) THEN total
    ELSE SumRisk(risk_scores, k + 1, FloatAdd(total, FloatLiteral(risk_scores[k], 100)))

\* sum(risk_scores) / max(len(risk_scores), 1), a float
AvgRisk(risk_scores) ==
    FloatDiv(SumRisk(risk_scores, 1, FloatZero), IF Len(risk_scores) > 1 THEN Len(risk_scores) ELSE 1)

\* the sync_history document of a sync of a provider
HistoryEntry(provider, synced) ==
    [provider |-> provider, timestamp |-> SyncUtcNow,
     total_synced |-> Len(synced),
     privileged_count |->
         Cardinality({k \in 1..Len(synced) : synced[k].privilegeTier \in {"high", "critical"}}),
     risk_scores |-> [k \in 1..Len(synced) |-> synced[k].riskScore],
     avg_risk |-> AvgRisk([k \in 1..Len(synced) |-> synced[k].riskScore])]

(***************************************************************************)
(* Demo identities: _generate_demo_data.  random.seed(hash(email)) makes   *)
(* the draws a function of the email and of the hash seed of the process.  *)
(* DemoDrawTable holds what the generator of CPython 3.11 draws for the    *)
(* emails of the model under PYTHONHASHSEED 0 and 1: randint and choice as *)
(* drawn, round(uniform(a, b), 1) in hundredths, random() in millionths.   *)
(***************************************************************************)
HashSeeds == {0, 1}

DemoDrawTable ==
    {[hashseed |-> 0, email |-> "cat@co",
      aws |-> [hours |-> 48, risk |-> 550, coin |-> 697086, days |-> 3, risk2 |-> 5620],
      azure |-> [minutes |-> 769, risk |-> 240],
      gitlab |-> [mfa |-> FALSE, hours |-> 5, risk |-> 2190],
      okta |-> [minutes |-> 99, risk |-> 140]],
     [hashseed |-> 0, email |-> "divyansh.parashar@be4breach.com",
      aws |-> [hours |-> 9, risk |-> 610, coin |-> 821121, days |-> 10, risk2 |-> 5740],
      azure |-> [minutes |-> 885, risk |-> 300],
      gitlab |-> [mfa |-> TRUE, hours |-> 9, risk |-> 3410],
      okta |-> [minutes |-> 114, risk |-> 220]],
     [hashseed |-> 0, email |-> "nikhil@be4breach.com",
      aws |-> [hours |-> 5, risk |-> 1140, coin |-> 48554, days |-> 0, risk2 |-> 0],
      azure |-> [minutes |-> 83, risk |-> 710],
      gitlab |-> [mfa |-> TRUE, hours |-> 42, risk |-> 2850],
      okta |-> [minutes |-> 14, risk |-> 670]],
     [hashseed |-> 0, email |-> "smit.rami@be4breach.com",
      aws |-> [hours |-> 48, risk |-> 1250, coin |-> 131848, days |-> 0, risk2 |-> 0],
      azure |-> [minutes |-> 842, risk |-> 790],
      gitlab |-> [mfa |-> FALSE, hours |-> 10, risk |-> 2820],
      okta |-> [minutes |-> 109, risk |-> 770]],
     [hashseed |-> 0, email |-> "akanksha.gupta@be4breach.com",
      aws |-> [hours |-> 46, risk |-> 1050, coin |-> 989632, days |-> 7, risk2 |-> 4090],
      azure |-> [minutes |-> 737, risk |-> 640],
      gitlab |-> [mfa |-> FALSE, hours |-> 36, risk |-> 1560],
      okta |-> [minutes |-> 95, risk |-> 590]],
     [hashseed |-> 0, email |-> "dev@corp.io",
      aws |-> [hours |-> 37, risk |-> 540, coin |-> 847917, days |-> 7, risk2 |-> 5820],
      azure |-> [minutes |-> 586, risk |-> 230],
      gitlab |-> [mfa |-> FALSE, hours |-> 4, risk |-> 3100],
      okta |-> [minutes |-> 77, risk |-> 130]],
     [hashseed |-> 0, email |-> "bot@corp.io",
      aws |-> [hours |-> 20, risk |-> 1020, coin |-> 6386, days |-> 0, risk2 |-> 0],
      azure |-> [minutes |-> 328, risk |-> 610],
      gitlab |-> [mfa |-> TRUE, hours |-> 35, risk |-> 3110],
      okta |-> [minutes |-> 44, risk |-> 570]],
     [hashseed |-> 0, email |-> "root@users.noreply.github.com",
      aws |-> [hours |-> 14, risk |-> 640, coin |-> 650497, days |-> 8, risk2 |-> 4640],
      azure |-> [minutes |-> 229, risk |-> 310],
      gitlab |-> [mfa |-> TRUE, hours |-> 11, risk |-> 2780],
      okta |-> [minutes |-> 32, risk |-> 230]],
     [hashseed |-> 0, email |-> "cat@users.noreply.github.com",
      aws |-> [hours |-> 11, risk |-> 540, coin |-> 298397, days |-> 0, risk2 |-> 0],
      azure |-> [minutes |-> 978, risk |-> 940],
      gitlab |-> [mfa |-> TRUE, hours |-> 4, risk |-> 2060],
      okta |-> [minutes |-> 26, risk |-> 140]],
     [hashseed |-> 1, email |-> "cat@co",
      aws |-> [hours |-> 15, risk |-> 540, coin |-> 478583, days |-> 0, risk2 |-> 0],
      azure |-> [minutes |-> 244, risk |-> 230],
      gitlab |-> [mfa |-> TRUE, hours |-> 4, risk |-> 2000],
      okta |-> [minutes |-> 34, risk |-> 140]],
     [hashseed |-> 1, email |-> "divyansh.parashar@be4breach.com",
      aws |-> [hours |-> 9, risk |-> 860, coin |-> 384556, days |-> 0, risk2 |-> 0],
      azure |-> [minutes |-> 150, risk |-> 490],
      gitlab |-> [mfa |-> TRUE, hours |-> 25, risk |-> 3110],
      okta |-> [minutes |-> 22, risk |-> 430]],
     [hashseed |-> 1, email |-> "nikhil@be4breach.com",
      aws |-> [hours |-> 18, risk |-> 920, coin |-> 880035, days |-> 4, risk2 |-> 5000],
      azure |-> [minutes |-> 294, risk |-> 540],
      gitlab |-> [mfa |-> TRUE, hours |-> 28, risk |-> 1100],
      okta |-> [minutes |-> 40, risk |-> 480]],
     [hashseed |-> 1, email |-> "smit.rami@be4breach.com",
      aws |-> [hours |-> 25, risk |-> 760, coin |-> 488745, days |-> 0, risk2 |-> 0],
      azure |-> [minutes |-> 407, risk |-> 410],
      gitlab |-> [mfa |-> TRUE, hours |-> 18, risk |-> 2880],
      okta |-> [minutes |-> 54, risk |-> 330]],
     [hashseed |-> 1, email |-> "akanksha.gupta@be4breach.com",
      aws |-> [hours |-> 42, risk |-> 990, coin |-> 747467, days |-> 9, risk2 |-> 4260],
      azure |-> [minutes |-> 667, risk |-> 590],
      gitlab |-> [mfa |-> FALSE, hours |-> 33, risk |-> 2550],
      okta |-> [minutes |-> 87, risk |-> 540]],
     [hashseed |-> 1, email |-> "dev@corp.io",
      aws |-> [hours |-> 3, risk |-> 610, coin |-> 832279, days |-> 10, risk2 |-> 4220],
      azure |-> [minutes |-> 44, risk |-> 290],
      gitlab |-> [mfa |-> TRUE, hours |-> 9, risk |-> 3100],
      okta |-> [minutes |-> 9, risk |-> 200]],
     [hashseed |-> 1, email |-> "bot@corp.io",
      aws |-> [hours |-> 28, risk |-> 830, coin |-> 628972, days |-> 5, risk2 |-> 4100],
      azure |-> [minutes |-> 451, risk |-> 460],
      gitlab |-> [mfa |-> TRUE, hours |-> 23, risk |-> 1390],
      okta |-> [minutes |-> 60, risk |-> 400]],
     [hashseed |-> 1, email |-> "root@users.noreply.github.com",
      aws |-> [hours |-> 8, risk |-> 1110, coin |-> 500575, days |-> 4, risk2 |-> 6710],
      azure |-> [minutes |-> 780, risk |-> 980],
      gitlab |-> [mfa |-> TRUE, hours |-> 40, risk |-> 1580],
      okta |-> [minutes |-> 101, risk |-> 970]],
     [hashseed |-> 1, email |-> "cat@users.noreply.github.com",
      aws |-> [hours |-> 7, risk |-> 1500, coin |-> 732737, days |-> 4, risk2 |-> 7040],
      azure |-> [minutes |-> 843, risk |-> 1000],
      gitlab |-> [mfa |-> TRUE, hours |-> 31, risk |-> 2830],
      okta |-> [minutes |-> 109, risk |-> 1000]]}

DemoDraws(hashseed, email) ==
    CHOOSE row \in DemoDrawTable : row.hashseed = hashseed /\ row.email = email

\* email.replace('@', '-')
ReplaceAt(s) == replace(s, "@", "-")

\* email.split('@')[1] if '@' in email else "be4breach.com"
DomainOf(email) ==
    LET ats == {k \in 1..Len(email) : SubSeq(email, k, k) = "@"} IN
    IF ats = {} THEN "be4breach.com"
    ELSE LET first == MinOf(ats)
             later == {k \in ats : k > first}
         IN  SubSeq(email, first + 1, IF later = {} THEN Len(email) ELSE MinOf(later) - 1)

\* `random.random() > 0.5`, the draw in millionths
COIN_THRESHOLD == 500000

\* riskScore is in hundredths
_generate_demo_data(email, source, hashseed) ==
    LET draws == DemoDraws(hashseed, email) IN
    IF source = "aws"
    THEN <<UnifiedIdentity(
               [id |-> "aws-" \o ReplaceAt(email), email |-> email, source |-> "demo",
                provider |-> "aws",
                roles |-> <<"AdministratorAccess", "Billing", "IAMFullAccess",
                            "SecurityAudit">>,
                mfaEnabled |-> TRUE,
                lastLogin |-> <<DatetimeMinus(SyncUtcNow, 3600 * draws.aws.hours)>>,
                isActive |-> TRUE, riskScore |-> draws.aws.risk,
                privilegeTier |-> "critical", exposureLevel |-> FloatOfInt(5),
                cloudAccounts |-> <<"aws-prod-0123456789">>])>>
         \o (IF draws.aws.coin > COIN_THRESHOLD
             THEN <<UnifiedIdentity(
                        [id |-> "aws-role-sec-" \o ReplaceAt(email),
                         email |-> "security-role@" \o DomainOf(email),
                         source |-> "demo", provider |-> "aws",
                         roles |-> <<"ReadOnlyAccess", "SecurityAudit">>,
                         mfaEnabled |-> FALSE,
                         lastLogin |-> <<DatetimeMinus(SyncUtcNow, 86400 * draws.aws.days)>>,
                         isActive |-> TRUE, riskScore |-> draws.aws.risk2,
                         privilegeTier |-> "high", exposureLevel |-> FloatOfInt(30),
                         cloudAccounts |-> <<"aws-prod-0123456789">>])>>
             ELSE <<>>)
    ELSE IF source = "azure"
    THEN <<UnifiedIdentity(
               [id |-> "azure-" \o ReplaceAt(email), email |-> email, source |-> "demo",
                provider |-> "azure",
                roles |-> <<"Global Administrator", "Application Developer",
                            "User Access Administrator">>,
                mfaEnabled |-> TRUE,
                lastLogin |-> <<DatetimeMinus(SyncUtcNow, 60 * draws.azure.minutes)>>,
                isActive |-> TRUE, riskScore |-> draws.azure.risk,
                privilegeTier |-> "critical", exposureLevel |-> FloatOfInt(2),
                cloudAccounts |-> <<"azure-tenant-be4breach">>])>>
    ELSE IF source = "gitlab"
    THEN <<UnifiedIdentity(
               [id |-> "gitlab-" \o ReplaceAt(email), email |-> email, source |-> "demo",
                provider |-> "gitlab", roles |-> <<"Owner", "Maintainer">>,
                mfaEnabled |-> draws.gitlab.mfa,
                lastLogin |-> <<DatetimeMinus(SyncUtcNow, 3600 * draws.gitlab.hours)>>,
                isActive |-> TRUE, riskScore |-> draws.gitlab.risk,
                privilegeTier |-> "high", exposureLevel |-> FloatOfInt(15),
                groupMembership |-> <<"Engineering", "Security Ops", "DevOps">>])>>
    ELSE IF source = "okta"
    THEN <<UnifiedIdentity(
               [id |-> "okta-" \o ReplaceAt(email), email |-> email, source |-> "demo",
                provider |-> "okta",
                roles |-> <<"Super Admin", "Everything Admin", "Report Administrator">>,
                mfaEnabled |-> TRUE,
                lastLogin |-> <<DatetimeMinus(SyncUtcNow, 60 * draws.okta.minutes)>>,
                isActive |-> TRUE, riskScore |-> draws.okta.risk,
                privilegeTier |-> "critical", exposureLevel |-> FloatOfInt(1),
                groupMembership |-> <<"Admins", "Engineering Managers",
                                      "IT Infrastructure">>,
                linkedAccounts |-> <<"aws", "gcp", "azure", "github", "gitlab">>])>>
    ELSE <<>>

REQUESTED_DEMO_EMAILS ==
    <<"divyansh.parashar@be4breach.com", "nikhil@be4breach.com",
      "smit.rami@be4breach.com", "akanksha.gupta@be4breach.com">>

TARGET_DEMO_PROVIDERS == <<"aws", "azure", "gitlab", "okta">>

EMAILS_LIMIT == 20

\* find({"source": {"$in": ["github", "gcp"]}, "email": {"$ne": None}})
\* .limit(20), and the emails of its documents that have one
SyncedEmails(unified_identities) ==
    LET docs == SelectSeq(unified_identities,
                          LAMBDA doc : /\ GetOr(doc, "source", None) \in {"github", "gcp"}
                                       /\ GetOr(doc, "email", None) # None)
        first == SubSeq(docs, 1, Min(Len(docs), EMAILS_LIMIT))
        emails == [k \in 1..Len(first) |-> first[k].email]
    IN  SelectSeq(emails, Truthy)

RECURSIVE Distinct(_)
Distinct(s) ==
    IF s = <<>> THEN <<>>
    ELSE LET init == Distinct(SubSeq(s, 1, Len(s) - 1)) IN
         IF s[Len(s)] \in Range(init) THEN init ELSE Append(init, s[Len(s)])

\* the emails in the order base_emails.add first takes each of them
BaseEmails(current_user_email, synced_emails) ==
    Distinct((IF Truthy(current_user_email) THEN <<current_user_email>> ELSE <<>>)
                 \o REQUESTED_DEMO_EMAILS \o synced_emails)

(***************************************************************************)
(* `for email in base_emails`: the order a set of str is iterated in is a  *)
(* function of the hash seed and of the insertions.  SetOrderTable holds   *)
(* the order CPython 3.11 gives under PYTHONHASHSEED 0 and 1, for the      *)
(* emails of the model, each written as its place in DemoEmails.           *)
(***************************************************************************)
DemoEmails ==
    <<"cat@co", "divyansh.parashar@be4breach.com", "nikhil@be4breach.com",
      "smit.rami@be4breach.com", "akanksha.gupta@be4breach.com", "dev@corp.io",
      "bot@corp.io", "root@users.noreply.github.com", "cat@users.noreply.github.com">>

SetOrderTable ==
    {[hashseed |-> 0, inserted |-> <<2, 3, 4, 5>>, order |-> <<4, 3, 5, 2>>],
     [hashseed |-> 0, inserted |-> <<2, 3, 4, 5, 1>>, order |-> <<1, 2, 4, 5, 3>>],
     [hashseed |-> 0, inserted |-> <<2, 3, 4, 5, 6>>, order |-> <<2, 4, 6, 5, 3>>],
     [hashseed |-> 0, inserted |-> <<2, 3, 4, 5, 7>>, order |-> <<2, 4, 7, 5, 3>>],
     [hashseed |-> 0, inserted |-> <<2, 3, 4, 5, 1, 6>>, order |-> <<1, 2, 4, 6, 5, 3>>],
     [hashseed |-> 0, inserted |-> <<2, 3, 4, 5, 1, 7>>, order |-> <<1, 2, 4, 7, 5, 3>>],
     [hashseed |-> 0, inserted |-> <<2, 3, 4, 5, 6, 1>>, order |-> <<1, 2, 4, 6, 5, 3>>],
     [hashseed |-> 0, inserted |-> <<2, 3, 4, 5, 6, 7>>, order |-> <<2, 4, 6, 7, 5, 3>>],
     [hashseed |-> 0, inserted |-> <<2, 3, 4, 5, 7, 1>>, order |-> <<1, 2, 4, 7, 5, 3>>],
     [hashseed |-> 0, inserted |-> <<2, 3, 4, 5, 7, 6>>, order |-> <<2, 4, 6, 7, 5, 3>>],
     [hashseed |-> 0, inserted |-> <<2, 3, 4, 5, 1, 6, 7>>, order |-> <<1, 2, 4, 6, 7, 5, 3>>],
     [hashseed |-> 0, inserted |-> <<2, 3, 4, 5, 1, 7, 6>>, order |-> <<1, 2, 4, 6, 7, 5, 3>>],
     [hashseed |-> 0, inserted |-> <<2, 3, 4, 5, 6, 1, 7>>, order |-> <<1, 2, 4, 6, 7, 5, 3>>],
     [hashseed |-> 0, inserted |-> <<2, 3, 4, 5, 6, 7, 1>>, order |-> <<1, 2, 4, 6, 7, 5, 3>>],
     [hashseed |-> 0, inserted |-> <<2, 3, 4, 5, 7, 1, 6>>, order |-> <<1, 2, 4, 6, 7, 5, 3>>],
     [hashseed |-> 0, inserted |-> <<2, 3, 4, 5, 7, 6, 1>>, order |-> <<1, 2, 4, 6, 7, 5, 3>>],
     [hashseed |-> 0, inserted |-> <<2, 3, 4, 5, 8>>, order |-> <<8, 2, 4, 5, 3>>],
     [hashseed |-> 0, inserted |-> <<2, 3, 4, 5, 9>>, order |-> <<2, 4, 5, 3, 9>>],
     [hashseed |-> 0, inserted |-> <<2, 3, 4, 5, 1, 8>>, order |-> <<1, 8, 2, 4, 5, 3>>],
     [hashseed |-> 0, inserted |-> <<2, 3, 4, 5, 1, 9>>, order |-> <<1, 2, 4, 5, 3, 9>>],
     [hashseed |-> 0, inserted |-> <<2, 3, 4, 5, 8, 1>>, order |-> <<1, 8, 2, 4, 5, 3>>],
     [hashseed |-> 0, inserted |-> <<2, 3, 4, 5, 8, 9>>, order |-> <<8, 2, 4, 5, 3, 9>>],
     [hashseed |-> 0, inserted |-> <<2, 3, 4, 5, 9, 1>>, order |-> <<1, 2, 4, 5, 3, 9>>],
     [hashseed |-> 0, inserted |-> <<2, 3, 4, 5, 9, 8>>, order |-> <<8, 2, 4, 5, 3, 9>>],
     [hashseed |-> 0, inserted |-> <<2, 3, 4, 5, 1, 8, 9>>, order |-> <<1, 8, 2, 4, 5, 3, 9>>],
     [hashseed |-> 0, inserted |-> <<2, 3, 4, 5, 1, 9, 8>>, order |-> <<1, 8, 2, 4, 5, 3, 9>>],
     [hashseed |-> 0, inserted |-> <<2, 3, 4, 5, 8, 1, 9>>, order |-> <<1, 8, 2, 4, 5, 3, 9>>],
     [hashseed |-> 0, inserted |-> <<2, 3, 4, 5, 8, 9, 1>>, order |-> <<1, 8, 2, 4, 5, 3, 9>>],
     [hashseed |-> 0, inserted |-> <<2, 3, 4, 5, 9, 1, 8>>, order |-> <<1, 8, 2, 4, 5, 3, 9>>],
     [hashseed |-> 0, inserted |-> <<2, 3, 4, 5, 9, 8, 1>>, order |-> <<1, 8, 2, 4, 5, 3, 9>>],
     [hashseed |-> 0, inserted |-> <<1, 2, 3, 4, 5>>, order |-> <<1, 2, 4, 5, 3>>],
     [hashseed |-> 0, inserted |-> <<1, 2, 3, 4, 5, 6>>, order |-> <<1, 2, 4, 6, 5, 3>>],
     [hashseed |-> 0, inserted |-> <<1, 2, 3, 4, 5, 7>>, order |-> <<1, 2, 4, 7, 5, 3>>],
     [hashseed |-> 0, inserted |-> <<1, 2, 3, 4, 5, 6, 7>>, order |-> <<1, 2, 4, 6, 7, 5, 3>>],
     [hashseed |-> 0, inserted |-> <<1, 2, 3, 4, 5, 7, 6>>, order |-> <<1, 2, 4, 6, 7, 5, 3>>],
     [hashseed |-> 0, inserted |-> <<1, 2, 3, 4, 5, 8>>, order |-> <<1, 8, 2, 4, 5, 3>>],
     [hashseed |-> 0, inserted |-> <<1, 2, 3, 4, 5, 9>>, order |-> <<1, 2, 4, 5, 3, 9>>],
     [hashseed |-> 0, inserted |-> <<1, 2, 3, 4, 5, 8, 9>>, order |-> <<1, 8, 2, 4, 5, 3, 9>>],
     [hashseed |-> 0, inserted |-> <<1, 2, 3, 4, 5, 9, 8>>, order |-> <<1, 8, 2, 4, 5, 3, 9>>],
     [hashseed |-> 1, inserted |-> <<2, 3, 4, 5>>, order |-> <<2, 3, 5, 4>>],
     [hashseed |-> 1, inserted |-> <<2, 3, 4, 5, 1>>, order |-> <<1, 4, 2, 5, 3>>],
     [hashseed |-> 1, inserted |-> <<2, 3, 4, 5, 6>>, order |-> <<6, 4, 2, 5, 3>>],
     [hashseed |-> 1, inserted |-> <<2, 3, 4, 5, 7>>, order |-> <<4, 7, 2, 5, 3>>],
     [hashseed |-> 1, inserted |-> <<2, 3, 4, 5, 1, 6>>, order |-> <<1, 4, 6, 2, 5, 3>>],
     [hashseed |-> 1, inserted |-> <<2, 3, 4, 5, 1, 7>>, order |-> <<1, 4, 7, 2, 5, 3>>],
     [hashseed |-> 1, inserted |-> <<2, 3, 4, 5, 6, 1>>, order |-> <<1, 6, 4, 2, 5, 3>>],
     [hashseed |-> 1, inserted |-> <<2, 3, 4, 5, 6, 7>>, order |-> <<6, 4, 7, 2, 5, 3>>],
     [hashseed |-> 1, inserted |-> <<2, 3, 4, 5, 7, 1>>, order |-> <<1, 4, 7, 2, 5, 3>>],
     [hashseed |-> 1, inserted |-> <<2, 3, 4, 5, 7, 6>>, order |-> <<4, 6, 7, 2, 5, 3>>],
     [hashseed |-> 1, inserted |-> <<2, 3, 4, 5, 1, 6, 7>>, order |-> <<1, 4, 6, 7, 2, 5, 3>>],
     [hashseed |-> 1, inserted |-> <<2, 3, 4, 5, 1, 7, 6>>, order |-> <<1, 4, 6, 7, 2, 5, 3>>],
     [hashseed |-> 1, inserted |-> <<2, 3, 4, 5, 6, 1, 7>>, order |-> <<1, 6, 4, 7, 2, 5, 3>>],
     [hashseed |-> 1, inserted |-> <<2, 3, 4, 5, 6, 7, 1>>, order |-> <<1, 6, 4, 7, 2, 5, 3>>],
     [hashseed |-> 1, inserted |-> <<2, 3, 4, 5, 7, 1, 6>>, order |-> <<1, 4, 6, 7, 2, 5, 3>>],
     [hashseed |-> 1, inserted |-> <<2, 3, 4, 5, 7, 6, 1>>, order |-> <<1, 4, 6, 7, 2, 5, 3>>],
     [hashseed |-> 1, inserted |-> <<2, 3, 4, 5, 8>>, order |-> <<4, 2, 5, 3, 8>>],
     [hashseed |-> 1, inserted |-> <<2, 3, 4, 5, 9>>, order |-> <<4, 9, 2, 5, 3>>],
     [hashseed |-> 1, inserted |-> <<2, 3, 4, 5, 1, 8>>, order |-> <<1, 4, 2, 5, 3, 8>>],
     [hashseed |-> 1, inserted |-> <<2, 3, 4, 5, 1, 9>>, order |-> <<1, 4, 9, 2, 5, 3>>],
     [hashseed |-> 1, inserted |-> <<2, 3, 4, 5, 8, 1>>, order |-> <<1, 4, 2, 5, 3, 8>>],
     [hashseed |-> 1, inserted |-> <<2, 3, 4, 5, 8, 9>>, order |-> <<4, 9, 2, 5, 3, 8>>],
     [hashseed |-> 1, inserted |-> <<2, 3, 4, 5, 9, 1>>, order |-> <<1, 4, 9, 2, 5, 3>>],
     [hashseed |-> 1, inserted |-> <<2, 3, 4, 5, 9, 8>>, order |-> <<4, 9, 2, 5, 3, 8>>],
     [hashseed |-> 1, inserted |-> <<2, 3, 4, 5, 1, 8, 9>>, order |-> <<1, 4, 9, 2, 5, 3, 8>>],
     [hashseed |-> 1, inserted |-> <<2, 3, 4, 5, 1, 9, 8>>, order |-> <<1, 4, 9, 2, 5, 3, 8>>],
     [hashseed |-> 1, inserted |-> <<2, 3, 4, 5, 8, 1, 9>>, order |-> <<1, 4, 9, 2, 5, 3, 8>>],
     [hashseed |-> 1, inserted |-> <<2, 3, 4, 5, 8, 9, 1>>, order |-> <<1, 4, 9, 2, 5, 3, 8>>],
     [hashseed |-> 1, inserted |-> <<2, 3, 4, 5, 9, 1, 8>>, order |-> <<1, 4, 9, 2, 5, 3, 8>>],
     [hashseed |-> 1, inserted |-> <<2, 3, 4, 5, 9, 8, 1>>, order |-> <<1, 4, 9, 2, 5, 3, 8>>],
     [hashseed |-> 1, inserted |-> <<1, 2, 3, 4, 5>>, order |-> <<1, 4, 2, 5, 3>>],
     [hashseed |-> 1, inserted |-> <<1, 2, 3, 4, 5, 6>>, order |-> <<1, 4, 6, 2, 5, 3>>],
     [hashseed |-> 1, inserted |-> <<1, 2, 3, 4, 5, 7>>, order |-> <<1, 4, 7, 2, 5, 3>>],
     [hashseed |-> 1, inserted |-> <<1, 2, 3, 4, 5, 6, 7>>, order |-> <<1, 4, 6, 7, 2, 5, 3>>],
     [hashseed |-> 1, inserted |-> <<1, 2, 3, 4, 5, 7, 6>>, order |-> <<1, 4, 6, 7, 2, 5, 3>>],
     [hashseed |-> 1, inserted |-> <<1, 2, 3, 4, 5, 8>>, order |-> <<1, 4, 2, 5, 3, 8>>],
     [hashseed |-> 1, inserted |-> <<1, 2, 3, 4, 5, 9>>, order |-> <<1, 4, 9, 2, 5, 3>>],
     [hashseed |-> 1, inserted |-> <<1, 2, 3, 4, 5, 8, 9>>, order |-> <<1, 4, 9, 2, 5, 3, 8>>],
     [hashseed |-> 1, inserted |-> <<1, 2, 3, 4, 5, 9, 8>>, order |-> <<1, 4, 9, 2, 5, 3, 8>>]}

PlaceOf(email) == CHOOSE k \in 1..Len(DemoEmails) : DemoEmails[k] = email

SetOrder(hashseed, inserted) ==
    LET places == [k \in 1..Len(inserted) |-> PlaceOf(inserted[k])]
        row == CHOOSE r \in SetOrderTable : r.hashseed = hashseed /\ r.inserted = places
    IN  [k \in 1..Len(row.order) |-> DemoEmails[row.order[k]]]

\* the (provider, email) pairs of the two loops of the demo injection:
\* the target providers that no config connects, each with every email
DemoPairs(configs, base_emails) ==
    LET connected_sources == {configs[k].source : k \in 1..Len(configs)}
        providers == SelectSeq(TARGET_DEMO_PROVIDERS,
                               LAMBDA source : source \notin connected_sources)
    IN  Flatten([p \in 1..Len(providers) |->
                    [e \in 1..Len(base_emails) |->
                        [source |-> providers[p], email |-> base_emails[e]]]])

\* the gather of the update_one calls of the first pair
NoDemo == [pairs |-> <<>>, demo_identities |-> <<>>, pending |-> {}]
StartPair(pairs, hashseed) ==
    LET demo_identities == _generate_demo_data(pairs[1].email, pairs[1].source, hashseed) IN
    [pairs |-> pairs, demo_identities |-> demo_identities,
     pending |-> 1..Len(demo_identities)]

\* total_synced = sum(results) + demo_count
TotalWithoutDemo(results, demo_count) == SumSeq(results)
TotalSynced(results, demo_count) == SumSeq(results) + demo_count

(***************************************************************************)
(* get_all_identities.                                                     *)
(***************************************************************************)
\* {"$regex": s, "$options": "i"}, for a pattern without special characters
RegexMatch(s, text) == Contains(lower(s), lower(text))

\* the query of get_all_identities; a riskScore is in hundredths
MatchesQuery(doc, search, source, risk_level) ==
    /\ search \notin {None, ""} =>
          \/ RegexMatch(lower(search), doc.email)
          \/ RegexMatch(lower(search), doc.id)
          \/ \E k \in 1..Len(doc.roles) : RegexMatch(lower(search), doc.roles[k])
    /\ source \notin {None, "", "all"} => doc.source = source
    /\ risk_level = "Critical" => doc.riskScore >= 8000
    /\ risk_level = "High" => doc.riskScore >= 6100 /\ doc.riskScore < 8000
    /\ risk_level = "Medium" => doc.riskScore >= 3100 /\ doc.riskScore < 6100
    /\ risk_level = "Low" => doc.riskScore < 3100

Matching(unified_identities, args) ==
    SelectSeq(unified_identities,
              LAMBDA doc : MatchesQuery(doc, args.search, args.source, args.risk_level))

\* count_documents(query)
CountDocuments(unified_identities, args) == Len(Matching(unified_identities, args))

\* find(query).skip(skip).limit(limit) and to_list(length=limit)
FindPage(unified_identities, args) ==
    LET matching == Matching(unified_identities, args) IN
    SubSeq(matching, args.skip + 1, Min(args.skip + args.limit, Len(matching)))

\* UnifiedIdentity(**doc) raises for a document without id, email or source
\* and for a source that is no IdentitySource
Validates(doc) ==
    /\ {"id", "email", "source"} \subseteq DOMAIN doc
    /\ doc.source \in IdentitySources

\* the answer of the except branch and of the unavailable store
TotalOnly(total) == [items |-> <<>>, total |-> total]
NoIdentities(total) == [items |-> <<>>, total |-> 0]

\* [UnifiedIdentity(**doc) for doc in docs] and the return, or the except
\* branch
Listed(docs, total) ==
    IF \A k \in 1..Len(docs) : Validates(docs[k])
    THEN [items |-> [k \in 1..Len(docs) |-> UnifiedIdentity(docs[k])], total |-> total]
    ELSE NoIdentities(total)

Args(search, source, risk_level, skip, limit) ==
    [search |-> search, source |-> source, risk_level |-> risk_level, skip |-> skip,
     limit |-> limit]

NoListing == [pc |-> "none"]

(***************************************************************************)
(* sync_gcp (routes/gcp.py).  The calls of the Google clients are          *)
(* synchronous; the route awaits its store operations one after another.   *)
(***************************************************************************)
\* sa_has_active_keys: a service account with a user-managed key, disabled
\* or not
RouteKeyStatus(service_accounts) ==
    [k \in 1..Len(service_accounts) |->
        [key |-> service_accounts[k].email,
         value |-> \E j \in 1..Len(service_accounts[k].keys) :
                      service_accounts[k].keys[j].key_type = "USER_MANAGED"]]

\* the loops of `3. Process Bindings` of sync_gcp
RECURSIVE RouteBindings(_, _, _)
RouteBindings(pairs, k, identities_map) ==
    IF k > Len(pairs) THEN identities_map
    ELSE LET member == pairs[k].member
             next ==
                 IF StartsWith(member, "user:")
                 THEN AddMember(identities_map, pairs[k].role, Removed(member, "user:"),
                                [roles |-> <<>>, type |-> "user"])
                 ELSE IF StartsWith(member, "serviceAccount:")
                 THEN AddMember(identities_map, pairs[k].role,
                                Removed(member, "serviceAccount:"),
                                [roles |-> <<>>, type |-> "serviceAccount"])
                 ELSE identities_map
         IN  IF Computed(next) THEN RouteBindings(pairs, k + 1, next) ELSE next

\* p_tier of sync_gcp
RouteTier(roles, is_high_risk) ==
    IF "roles/owner" \in Range(LowerAll(roles)) THEN "critical"
    ELSE IF \/ "roles/editor" \in Range(LowerAll(roles))
            \/ \E r \in Range(GCP_IAM_ADMIN_ROLES) : r \in Range(LowerAll(roles))
            \/ is_high_risk
    THEN "high"
    ELSE IF Len(roles) > GCP_MEDIUM_ROLES THEN "medium"
    ELSE "low"

\* the if/elif chain over the roles in sync_gcp
RouteRolePoints(roles_lower) ==
    IF "roles/owner" \in Range(roles_lower) THEN GCP_OWNER_RISK
    ELSE IF "roles/editor" \in Range(roles_lower) THEN GCP_EDITOR_RISK
    ELSE IF \E r \in Range(GCP_IAM_ADMIN_ROLES) : r \in Range(roles_lower)
    THEN GCP_IAM_ADMIN_RISK
    ELSE 0

\* UnifiedIdentity(...) of sync_gcp; risk_score is an int, capped before the
\* exposure level is taken from it
RouteIdentity(project_id, email, roles, is_sa, has_active_keys) ==
    LET role_points == RouteRolePoints(LowerAll(roles))
        key_points == GcpKeyPoints(is_sa, has_active_keys)
        risk_score == Min(GCP_BASE_RISK + role_points + key_points, GCP_RISK_CAP)
    IN  UnifiedIdentity(
            [id |-> "gcp-" \o project_id \o "-" \o email, email |-> email, source |-> "gcp",
             roles |-> roles, mfaEnabled |-> TRUE, isActive |-> TRUE,
             riskScore |-> 100 * risk_score,
             privilegeTier |-> RouteTier(roles, role_points > 0 \/ key_points > 0),
             exposureLevel |-> FloatMul(FloatOfInt(risk_score), GCP_EXPOSURE_SHARE),
             cloudAccounts |-> <<project_id>>, lastLogin |-> <<SyncUtcNow>>])

\* the identities of `4. Normalize and Save to DB`, in the order of the map
RouteIdentities(project, project_id) ==
    LET identities_map == RouteBindings(BindingPairs(project.bindings), 1, <<>>)
        sa_has_active_keys == RouteKeyStatus(project.service_accounts)
    IN  [k \in 1..Len(identities_map) |->
            RouteIdentity(project_id, identities_map[k].key, identities_map[k].value.roles,
                          identities_map[k].value.type = "serviceAccount",
                          Get(sa_has_active_keys, identities_map[k].key, FALSE))]

\* update_one({"source": "gcp"}, {"$set": {...}}, upsert=True) on
\* provider_configs
GcpConfigUpsert(provider_configs, project_id, sync_time) ==
    LET set == [last_sync |-> <<sync_time>>, is_active |-> TRUE,
                credentials |-> Dict([project_id |-> project_id])]
    IN  IF OfSource(provider_configs, "gcp") = {}
        THEN Append(provider_configs,
                    [source |-> "gcp", last_sync |-> set.last_sync,
                     is_active |-> set.is_active, credentials |-> set.credentials])
        ELSE [provider_configs EXCEPT ![MinOf(OfSource(provider_configs, "gcp"))] =
                 [k \in DOMAIN @ \cup DOMAIN set |-> IF k \in DOMAIN set THEN set[k] ELSE @[k]]]

\* get_gcp_credentials: the file of the environment exists and loads
get_gcp_credentials(w) ==
    /\ Truthy(getenv(w.env, "GOOGLE_APPLICATION_CREDENTIALS"))
    /\ w.env.GOOGLE_APPLICATION_CREDENTIALS \in w.files

HTTPException(status_code) == [status_code |-> status_code]
Synced(count) == [status_code |-> 200, count |-> count]

NoSyncGcp == [pc |-> "none"]

(***************************************************************************)
(* One connector on its own: BaseConnector.sync of an Okta, an AWS and a   *)
(* GCP connector.  last keeps what the fetch_raw_data calls of the sync    *)
(* did and the sleeps of the sync, in order.                               *)
(***************************************************************************)
GraphUnused ==
    /\ identities = <<>>
    /\ graph = NoGraph
    /\ phase = "sync"

NoRequests == [get_all_identities |-> NoListing, sync_gcp |-> NoSyncGcp]

AllBatches ==
    [okta |-> RawBatches("okta"), aws |-> RawBatches("aws"),
     azure |-> RawBatches("azure"), gitlab |-> RawBatches("gitlab"),
     github |-> GithubAnswers]

OKTA_API == [domain |-> "dev-1.okta.com", api_token |-> "00a"]
AWS_API == [aws_access_key_id |-> "AKIA1", aws_secret_access_key |-> "s3"]
GITHUB_API == [token |-> "ghp_1", org |-> "Be4Breach"]
AZURE_API == [tenant_id |-> "t-1", client_id |-> "c-1", client_secret |-> "s-1"]
GITLAB_API == [token |-> "glpat-1"]
GITHUB_ENV == [GITHUB_TOKEN |-> "ghp_2", GITHUB_ORG |-> "Be4Breach"]

\* a connector, its credentials and the world around it
ConnectorCases ==
    {[source |-> source, credentials |-> credentials,
      world |-> World(NoEnv, {}, AllBatches, ProjectEmpty, 0, now, FetchDurations, NoClients)] :
        source \in {"okta", "aws"},
        credentials \in {EmptyDict, OKTA_API, AWS_API,
                         [domain |-> "dev-1.okta.com", api_token |-> ""]},
        now \in StartTimes}
    \cup
    {[source |-> source, credentials |-> credentials,
      world |-> World(NoEnv, {}, AllBatches, ProjectEmpty, 0, now, FetchDurations, NoClients)] :
        source \in {"azure", "gitlab"},
        credentials \in {EmptyDict, AZURE_API, GITLAB_API,
                         [tenant_id |-> "t-1", client_id |-> "c-1"]},
        now \in StartTimes}
    \cup
    {[source |-> "github", credentials |-> credentials,
      world |-> World(env, {}, AllBatches, ProjectEmpty, 0, now, FetchDurations, NoClients)] :
        credentials \in {EmptyDict, GITHUB_API, [access_token |-> "gho_1"]},
        env \in {NoEnv, GITHUB_ENV},
        now \in StartTimes}
    \cup
    {[source |-> "gcp", credentials |-> EmptyDict,
      world |-> World(env, files, AllBatches, project, 0, now, FetchDurations, NoClients)] :
        env \in {NoEnv, GcpEnv, [GCP_PROJECT_ID |-> "be4-prod"]},
        files \in {{}, {GCP_CREDENTIALS_FILE}},
        project \in {ProjectCorp, ProjectLab, ProjectEmpty},
        now \in StartTimes}

InitConnector ==
    /\ GraphUnused
    /\ \E case \in ConnectorCases :
          /\ world = case.world
          /\ connector = NewConnector(case.source, case.credentials, case.world.time)
    /\ last = [op |-> "sync", fetched |-> <<>>, slept |-> <<>>]
    /\ tasks = <<>>
    /\ store = EmptyStore
    /\ service = [pc |-> "off"]
    /\ requests = NoRequests

\* `await self.rate_limiter.wait()` returns
RateLimiterWaits ==
    /\ connector.pc = "wait"
    /\ connector' = RateLimiterWait(connector)
    /\ last' = IF RateLimiterPause(connector) > 0
               THEN [last EXCEPT !.slept =
                        Append(@, Sleep("rate_limiter", RateLimiterPause(connector)))]
               ELSE last
    /\ UNCHANGED <<identities, graph, phase, tasks, store, service, requests, world>>

\* an await of fetch_raw_data completes; when it ends the call, the pass of
\* the loop runs to its return, its raise or its sleep
FetchRawData ==
    /\ AwaitsFetch(connector)
    /\ \E step \in FetchSteps(connector, world), duration \in world.durations :
          /\ connector' = AfterFetch(connector, world, step, duration)
          /\ last' = IF step.outcome = <<>> THEN last
                     ELSE [last EXCEPT !.fetched = Append(@, step.outcome[1])]
    /\ UNCHANGED <<identities, graph, phase, tasks, store, service, requests, world>>

\* `await asyncio.sleep(delay)` of the except branch returns
BackoffSleeps ==
    /\ connector.pc = "sleeping"
    /\ connector' = SleepDone(connector)
    /\ last' = [last EXCEPT !.slept =
                   Append(@, Sleep("backoff",
                                   BackoffDelay(connector.base_delay, connector.attempt)))]
    /\ UNCHANGED <<identities, graph, phase, tasks, store, service, requests, world>>

NextConnector == RateLimiterWaits \/ FetchRawData \/ BackoffSleeps

SpecConnector == InitConnector /\ [][NextConnector]_vars

(***************************************************************************)
(* The service and the routes over one store.  sync_all, the coroutines of *)
(* its connectors, get_all_identities and sync_gcp run interleaved at      *)
(* their awaits: every action below is the completion of one await.  An    *)
(* await that does not suspend (a rate limiter that need not sleep, a      *)
(* simulated fetch) is a step too; it changes nothing another coroutine    *)
(* reads.  service.DB_AVAILABLE is the name the modules bound when they    *)
(* were imported; store.faults counts the store operations that raised.    *)
(***************************************************************************)
MaxFaults == 1

\* a store operation raises only while the budget of faults lasts
MayFail(ok) == ok \/ store.faults < MaxFaults
Failed(s, ok) == IF ok THEN s ELSE [s EXCEPT !.faults = @ + 1]

IdleService(db_available) ==
    [pc |-> "idle", DB_AVAILABLE |-> db_available, current_user_email |-> None,
     configs |-> <<>>, results |-> <<>>, base_emails |-> <<>>, demo |-> NoDemo,
     demo_count |-> 0, injected |-> <<>>, total |-> 0]

\* identities an earlier sync left in the store, and a document of a source
\* the model of today does not know
StoredGithub ==
    UnifiedIdentity([id |-> "github-7", email |-> "cat@co", source |-> "github",
                     roles |-> <<"Org Admin">>, riskScore |-> 9000,
                     privilegeTier |-> "high"])
StoredOkta == OktaNormalize(OktaAdmin)
StoredDemo ==
    [_generate_demo_data("cat@co", "aws", 0)[1] EXCEPT
        !.lastLogin = <<fromisoformat("2026-02-01T00:00:00")>>]
StoredGcp == RouteIdentity("be4-prod", "dev@corp.io", <<"roles/owner">>, FALSE, FALSE)
StoredLegacy ==
    [StoredGithub EXCEPT !.id = "ldap-1", !.email = "old@corp.io", !.source = "ldap",
                         !.riskScore = 1200]

\* the argument values of get_all_identities
SearchArgs == {None, "ADMIN", "zzz"}
SourceArgs == {None, "all", "demo"}
RiskLevelArgs == {None, "all", "Critical", "High", "Medium", "Low"}
SkipArgs == {0, 1}
LimitArgs == {1, 100}
AllArgs ==
    {Args(search, source, risk_level, skip, limit) :
        search \in SearchArgs, source \in SourceArgs, risk_level \in RiskLevelArgs,
        skip \in SkipArgs, limit \in LimitArgs}
SomeArgs == {Args(None, None, None, 0, 100), Args("ADMIN", "all", "Critical", 0, 1)}

UserEmails == {None, "cat@co"}

OKTA_ENV == [OKTA_DOMAIN |-> "dev-1.okta.com", OKTA_API_TOKEN |-> "00a"]
AWS_ENV == [AWS_ACCESS_KEY_ID |-> "AKIA1", AWS_SECRET_ACCESS_KEY |-> "s3"]
\* GCP configured, Azure without its client secret
CLOUD_ENV ==
    [GCP_PROJECT_ID |-> "be4-prod", GOOGLE_APPLICATION_CREDENTIALS |-> GCP_CREDENTIALS_FILE,
     AZURE_TENANT_ID |-> "t-1", AZURE_CLIENT_ID |-> "c-1"]

\* Azure with its three variables
AZURE_ENV == [AZURE_TENANT_ID |-> "t-1", AZURE_CLIENT_ID |-> "c-1", AZURE_CLIENT_SECRET |-> "s-1"]

SomeBatches ==
    [okta |-> {<<OktaAdmin, OktaDev>>, <<OktaAdmin, OktaBadLogin>>},
     aws |-> {<<AwsPlain, AwsDev>>},
     azure |-> {<<AzureGuest, AzureAdmin>>},
     gitlab |-> {<<GitlabDev, GitlabAdmin>>},
     github |-> [members |-> {Response(403, <<>>), Response(200, <<GithubRoot, GithubCat>>)},
                 user |-> {Response(200, GithubUser)},
                 memberships |-> {RequestError(GithubMessage),
                                  Response(200, [role |-> "admin", state |-> "active"])}]]

Deployment(db_available, provider_configs, unified_identities, w) ==
    [DB_AVAILABLE |-> db_available,
     store |-> [EmptyStore EXCEPT !.provider_configs = provider_configs,
                                  !.unified_identities = unified_identities],
     world |-> w]

\* documents of a source that is no IdentitySource
LegacyConfigs(n) == [k \in 1..n |-> ConfigDoc("ldap", Dict([host |-> "ldap-1"]), TRUE)]

\* The deployments of the model: the flag, the documents of the store and
\* the world.  A fresh store and no provider:
FreshDeployments ==
    {Deployment(TRUE, <<>>, <<>>,
                World(NoEnv, {}, SomeBatches, ProjectEmpty, hashseed, 1000, {150},
                      Clients(UserEmails, {}, FALSE))) : hashseed \in HashSeeds}

\* Okta and AWS through their APIs
ApiDeployments ==
    {Deployment(TRUE,
                <<ConfigDoc("okta", Dict(OKTA_API), TRUE), ConfigDoc("aws", Dict(AWS_API), TRUE)>>,
                <<StoredOkta>>,
                World(NoEnv, {}, SomeBatches, ProjectEmpty, 1, 1000, {150},
                      Clients({None}, {}, FALSE)))}

\* a source without connector, credentials kept as a string, and AWS whose
\* credentials come from the environment
EnvDeployments ==
    {Deployment(TRUE,
                <<ConfigDoc("hr", Dict([token |-> "t"]), TRUE),
                  ConfigDoc("okta", Str("gAAAAAB"), TRUE),
                  [source |-> "aws", is_active |-> TRUE]>>,
                <<>>,
                World(AWS_ENV, {}, SomeBatches, ProjectEmpty, 0, 1000, {150},
                      Clients({"cat@co"}, {}, FALSE)))}

\* an inactive document and Okta whose credentials come from the environment
InactiveDeployments ==
    {Deployment(TRUE,
                <<ConfigDoc("aws", Dict(AWS_API), FALSE),
                  ConfigDoc("okta", Dict(EmptyDict), TRUE)>>,
                <<StoredGithub>>,
                World(OKTA_ENV, {}, SomeBatches, ProjectEmpty, 1, 86400000, {0, 150},
                      Clients({None}, {}, FALSE)))}

\* more active documents than sync_all reads
CappedDeployments ==
    {Deployment(TRUE,
                LegacyConfigs(TO_LIST_LENGTH) \o <<ConfigDoc("okta", Dict(OKTA_API), TRUE)>>,
                <<>>,
                World(NoEnv, {}, SomeBatches, ProjectEmpty, 0, 1000, {150},
                      Clients({None}, {}, FALSE)))}

\* GitHub whose token comes from the environment
ForgeDeployments ==
    {Deployment(TRUE, <<>>, <<StoredGithub>>,
                World(GITHUB_ENV, {}, SomeBatches, ProjectEmpty, 0, 1000, {150},
                      Clients({None}, {}, FALSE)))}

\* Azure from the environment, beside the simulation of GitLab
TenantDeployments ==
    {Deployment(TRUE,
                <<ConfigDoc("gitlab", Dict([base_url |-> "https://gitlab.corp.io/api/v4"]), TRUE)>>,
                <<>>,
                World(AZURE_ENV, {}, SomeBatches, ProjectEmpty, 1, 1000, {150},
                      Clients({None}, {}, FALSE)))}

\* GCP from the environment, synced by sync_all
CloudDeployments ==
    {Deployment(TRUE, <<>>, <<>>,
                World(CLOUD_ENV, {GCP_CREDENTIALS_FILE}, SomeBatches, project, 1, 1000, {150},
                      Clients({None}, {}, FALSE))) : project \in {ProjectCorp, ProjectLab}}

\* GCP synced by sync_all and by the route at once
RacingDeployments ==
    {Deployment(TRUE, <<>>, <<>>,
                World(CLOUD_ENV, {GCP_CREDENTIALS_FILE}, SomeBatches, ProjectSolo, 0, 1000, {150},
                      Clients({None}, {}, TRUE)))}

\* the route with and without its credentials file, beside queries
RouteDeployments ==
    {Deployment(TRUE, <<ConfigDoc("gcp", Dict([project_id |-> "be4-old"]), FALSE)>>,
                <<StoredGcp>>,
                World(CLOUD_ENV, files, SomeBatches, project, 0, 1000, {150},
                      Clients({}, SomeArgs, TRUE))) :
        files \in {{}, {GCP_CREDENTIALS_FILE}}, project \in {ProjectCorp, ProjectLab}}

\* the store flagged unavailable
UnavailableDeployments ==
    {Deployment(FALSE, <<ConfigDoc("okta", Dict(OKTA_API), TRUE)>>, <<StoredGithub>>,
                World(CLOUD_ENV, {GCP_CREDENTIALS_FILE}, SomeBatches, ProjectCorp, 0, 1000,
                      {150}, Clients(UserEmails, AllArgs, TRUE)))}

\* every query on a store that holds identities
QueryDeployments ==
    {Deployment(TRUE, <<>>, unified_identities,
                World(NoEnv, {}, SomeBatches, ProjectEmpty, 0, 1000, {150},
                      Clients({}, AllArgs, FALSE))) :
        unified_identities \in {<<StoredGithub, StoredOkta, StoredDemo, StoredGcp>>,
                                <<StoredGithub, StoredLegacy>>}}

\* queries while a sync runs
BusyDeployments ==
    {Deployment(TRUE, <<ConfigDoc("aws", Dict(EmptyDict), TRUE)>>,
                <<StoredGithub, StoredOkta>>,
                World(NoEnv, {}, SomeBatches, ProjectEmpty, 0, 1000, {150},
                      Clients({"cat@co"}, SomeArgs, FALSE)))}

Deployments ==
    FreshDeployments \cup ApiDeployments \cup EnvDeployments \cup InactiveDeployments
        \cup CappedDeployments \cup CloudDeployments \cup RacingDeployments
        \cup RouteDeployments \cup ForgeDeployments \cup TenantDeployments
        \cup UnavailableDeployments \cup QueryDeployments \cup BusyDeployments

InitSync ==
    /\ GraphUnused
    /\ last = NoCall
    /\ connector = <<>>
    /\ tasks = <<>>
    /\ requests = NoRequests
    /\ \E deployment \in Deployments :
          /\ world = deployment.world
          /\ store = deployment.store
          /\ service = IdleService(deployment.DB_AVAILABLE)

\* sync_all is called and runs to its first await; with the store flagged
\* unavailable it has no await and returns
SyncAll ==
    /\ service.pc = "idle"
    /\ \E current_user_email \in world.clients.sync_all :
          service' =
              IF service.DB_AVAILABLE
              THEN [service EXCEPT !.pc = "configs",
                                   !.current_user_email = current_user_email]
              ELSE [service EXCEPT
                       !.pc = "returned", !.current_user_email = current_user_email,
                       !.base_emails =
                           SetOrder(world.hashseed, BaseEmails(current_user_email, <<>>)),
                       !.total = TotalSynced(<<>>, 0)]
    /\ UNCHANGED <<identities, graph, phase, last, connector, tasks, store, requests, world>>

\* `await cursor.to_list(length=100)` of the configs returns or raises;
\* sync_all builds its configs and starts the coroutines of the connectors;
\* asyncio.gather of no coroutine does not suspend
ConfigsRead ==
    /\ service.pc = "configs"
    /\ \E ok \in BOOLEAN :
          /\ MayFail(ok)
          /\ \E configs \in {ActiveConfigs(service.DB_AVAILABLE, store.provider_configs,
                                           world.env, ~ok)} :
                /\ service' = [service EXCEPT
                                  !.configs = configs,
                                  !.pc = IF configs = <<>> THEN "emails" ELSE "gather"]
                /\ tasks' = [k \in 1..Len(configs) |-> NewTask(configs[k], world.time)]
          /\ store' = Failed(store, ok)
    /\ UNCHANGED <<identities, graph, phase, last, connector, requests, world>>

\* `await self.rate_limiter.wait()` of the connector of a coroutine returns
TaskWaits(k) ==
    /\ tasks[k].pc = "sync"
    /\ tasks[k].connector[1].pc = "wait"
    /\ tasks' = [tasks EXCEPT ![k].connector = <<RateLimiterWait(@[1])>>]
    /\ UNCHANGED <<identities, graph, phase, last, connector, store, service, requests, world>>

\* an await of fetch_raw_data completes in a coroutine; when connector.sync()
\* returns or raises, _sync_connector runs to its next await or to its end
TaskFetches(k) ==
    /\ tasks[k].pc = "sync"
    /\ AwaitsFetch(tasks[k].connector[1])
    /\ \E step \in FetchSteps(tasks[k].connector[1], world), duration \in world.durations :
          \E after \in {AfterFetch(tasks[k].connector[1], world, step, duration)} :
             tasks' = [tasks EXCEPT ![k] =
                          IF after.pc \in {"returned", "raised"}
                          THEN AfterSync(@, after, service.DB_AVAILABLE)
                          ELSE [@ EXCEPT !.connector = <<after>>]]
    /\ UNCHANGED <<identities, graph, phase, last, connector, store, service, requests, world>>

\* the sleep of the except branch of connector.sync() returns
TaskSleeps(k) ==
    /\ tasks[k].pc = "sync"
    /\ tasks[k].connector[1].pc = "sleeping"
    /\ tasks' = [tasks EXCEPT ![k].connector = <<SleepDone(@[1])>>]
    /\ UNCHANGED <<identities, graph, phase, last, connector, store, service, requests, world>>

\* one update_one of the gather of a coroutine completes; the operations
\* complete in any order, and those that are left when one raises complete
\* all the same
UpdateOne(k) ==
    /\ tasks[k].pending # {}
    /\ \E i \in tasks[k].pending, ok \in BOOLEAN :
          /\ MayFail(ok)
          /\ store' = Failed(IF ok
                             THEN [store EXCEPT !.unified_identities =
                                      UpsertIdentity(@, CONNECTOR_FILTER, tasks[k].identities[i])]
                             ELSE store, ok)
          /\ tasks' = [tasks EXCEPT ![k] =
                          IF ~ok THEN StoreRaised([@ EXCEPT !.pending = @ \ {i}])
                          ELSE IF @.pending = {i} /\ @.pc = "update"
                          THEN [@ EXCEPT !.pending = {}, !.pc = "history"]
                          ELSE [@ EXCEPT !.pending = @ \ {i}]]
    /\ UNCHANGED <<identities, graph, phase, last, connector, service, requests, world>>

\* insert_one into sync_history returns or raises
InsertHistory(k) ==
    /\ tasks[k].pc = "history"
    /\ \E ok \in BOOLEAN :
          /\ MayFail(ok)
          /\ store' = Failed(IF ok
                             THEN [store EXCEPT !.sync_history =
                                      Append(@, HistoryEntry(tasks[k].source,
                                                             tasks[k].identities))]
                             ELSE store, ok)
          /\ tasks' = [tasks EXCEPT ![k] =
                          IF ok THEN [@ EXCEPT !.pc = "last_sync"] ELSE StoreRaised(@)]
    /\ UNCHANGED <<identities, graph, phase, last, connector, service, requests, world>>

\* update_one of last_sync returns or raises, and _sync_connector ends
UpdateLastSync(k) ==
    /\ tasks[k].pc = "last_sync"
    /\ \E ok \in BOOLEAN :
          /\ MayFail(ok)
          /\ store' = Failed(IF ok
                             THEN [store EXCEPT !.provider_configs =
                                      SetLastSync(@, tasks[k].source, SyncUtcNow)]
                             ELSE store, ok)
          /\ tasks' = [tasks EXCEPT ![k] =
                          IF ok
                          THEN [@ EXCEPT !.pc = "done", !.completed = TRUE,
                                         !.result = SyncedResult(tasks[k].identities)]
                          ELSE StoreRaised(@)]
    /\ UNCHANGED <<identities, graph, phase, last, connector, service, requests, world>>

\* `await asyncio.gather(*sync_tasks)` returns the results of the
\* coroutines, and sync_all runs to the read of the synced emails
GatherReturns ==
    /\ service.pc = "gather"
    /\ \A k \in 1..Len(tasks) : tasks[k].pc = "done"
    /\ service' = [service EXCEPT !.results = [k \in 1..Len(tasks) |-> tasks[k].result],
                                  !.pc = "emails"]
    /\ UNCHANGED <<identities, graph, phase, last, connector, tasks, store, requests, world>>

\* `await cursor.to_list(length=20)` of the synced emails returns or
\* raises; sync_all starts the update_one calls of the first demo pair, or
\* returns when there is none
EmailsRead ==
    /\ service.pc = "emails"
    /\ \E ok \in BOOLEAN :
          /\ MayFail(ok)
          /\ \E base_emails \in
                 {SetOrder(world.hashseed,
                           BaseEmails(service.current_user_email,
                                      IF ok THEN SyncedEmails(store.unified_identities)
                                      ELSE <<>>))} :
                \E pairs \in {DemoPairs(service.configs, base_emails)} :
                   service' =
                       IF pairs = <<>>
                       THEN [service EXCEPT !.base_emails = base_emails, !.pc = "returned",
                                            !.total = TotalSynced(service.results, 0)]
                       ELSE [service EXCEPT !.base_emails = base_emails, !.pc = "demo",
                                            !.demo = StartPair(pairs, world.hashseed)]
          /\ store' = Failed(store, ok)
    /\ UNCHANGED <<identities, graph, phase, last, connector, tasks, requests, world>>

\* sync_all after the gather of a demo pair returned: the pair is counted,
\* and the next pair starts or sync_all returns
PairDone(s, hashseed) ==
    LET demo_count == s.demo_count + Len(s.demo.demo_identities)
        rest == Tail(s.demo.pairs)
    IN  IF rest = <<>>
        THEN [s EXCEPT !.demo_count = demo_count, !.demo = NoDemo, !.pc = "returned",
                       !.total = TotalSynced(s.results, demo_count)]
        ELSE [s EXCEPT !.demo_count = demo_count, !.demo = StartPair(rest, hashseed)]

\* one update_one of the gather of a demo pair completes; the first that
\* raises makes sync_all raise, and the others complete all the same
DemoUpdateOne ==
    /\ service.pc \in {"demo", "raised"}
    /\ service.demo.pending # {}
    /\ \E i \in service.demo.pending, ok \in BOOLEAN :
          /\ MayFail(ok)
          /\ store' = Failed(IF ok
                             THEN [store EXCEPT !.unified_identities =
                                      UpsertIdentity(@, DEMO_FILTER,
                                                     service.demo.demo_identities[i])]
                             ELSE store, ok)
          /\ \E written \in {IF ok THEN Append(service.injected, service.demo.demo_identities[i])
                             ELSE service.injected} :
                service' =
                    IF ~ok \/ service.pc = "raised"
                    THEN [service EXCEPT !.pc = "raised", !.demo.pending = @ \ {i},
                                         !.injected = written]
                    ELSE IF service.demo.pending = {i}
                    THEN PairDone([service EXCEPT !.injected = written], world.hashseed)
                    ELSE [service EXCEPT !.demo.pending = @ \ {i}, !.injected = written]
    /\ UNCHANGED <<identities, graph, phase, last, connector, tasks, requests, world>>

\* get_all_identities is called: it answers at once when the store is
\* flagged unavailable, and else builds its query and awaits count_documents
GetAllIdentities ==
    /\ requests.get_all_identities.pc = "none"
    /\ \E args \in world.clients.get_all_identities :
          requests' = [requests EXCEPT !.get_all_identities =
                          IF service.DB_AVAILABLE
                          THEN [pc |-> "count_documents", args |-> args, total |-> 0,
                                fault |-> "none", result |-> NoIdentities(0)]
                          ELSE [pc |-> "answered", args |-> args, total |-> 0,
                                fault |-> "none", result |-> NoIdentities(0)]]
    /\ UNCHANGED <<identities, graph, phase, last, connector, tasks, store, service, world>>

\* `await count_documents(query)` returns or raises
CountDocumentsDone ==
    /\ requests.get_all_identities.pc = "count_documents"
    /\ \E ok \in BOOLEAN :
          /\ MayFail(ok)
          /\ requests' = [requests EXCEPT !.get_all_identities =
                             IF ok
                             THEN [@ EXCEPT !.pc = "to_list",
                                            !.total = CountDocuments(store.unified_identities,
                                                  requests.get_all_identities.args)]
                             ELSE [@ EXCEPT !.pc = "answered", !.fault = "count_documents",
                                            !.result = NoIdentities(0)]]
          /\ store' = Failed(store, ok)
    /\ UNCHANGED <<identities, graph, phase, last, connector, tasks, service, world>>

\* `await cursor.to_list(length=limit)` returns or raises, and
\* get_all_identities answers
ToListDone ==
    /\ requests.get_all_identities.pc = "to_list"
    /\ \E ok \in BOOLEAN :
          /\ MayFail(ok)
          /\ \E docs \in {FindPage(store.unified_identities, requests.get_all_identities.args)} :
                requests' = [requests EXCEPT !.get_all_identities =
                                IF ~ok
                                THEN [@ EXCEPT !.pc = "answered", !.fault = "to_list",
                                               !.result =
                                                   NoIdentities(requests.get_all_identities.total)]
                                ELSE [@ EXCEPT !.pc = "answered",
                                               !.fault =
                                                   IF \A k \in 1..Len(docs) : Validates(docs[k])
                                                   THEN "none" ELSE "validation",
                                               !.result =
                                                   Listed(docs, requests.get_all_identities.total)]]
          /\ store' = Failed(store, ok)
    /\ UNCHANGED <<identities, graph, phase, last, connector, tasks, service, world>>

\* sync_gcp after its last update_one, or with no identity to write
GcpAfterUpdates(db_available, results) ==
    IF db_available THEN [pc |-> "update_config", results |-> results, next |-> 0]
    ELSE [pc |-> "answered", results |-> results, next |-> 0,
          response |-> Synced(Len(results))]

\* POST /sync of the GCP routes is called: it answers 400 without its
\* credentials or its project, 500 when a call of the Google clients raises,
\* and else runs to its first store operation
SyncGcp ==
    /\ requests.sync_gcp.pc = "none"
    /\ world.clients.sync_gcp
    /\ \E ok \in BOOLEAN :
          requests' = [requests EXCEPT !.sync_gcp =
              IF ~get_gcp_credentials(world) \/ ~Truthy(getenv(world.env, "GCP_PROJECT_ID"))
              THEN [pc |-> "answered", results |-> <<>>, next |-> 0,
                    response |-> HTTPException(400)]
              ELSE IF ~ok
              THEN [pc |-> "answered", results |-> <<>>, next |-> 0,
                    response |-> HTTPException(500)]
              ELSE LET found == RouteIdentities(world.project, world.env.GCP_PROJECT_ID) IN
                   IF service.DB_AVAILABLE /\ found # <<>>
                   THEN [pc |-> "update_one", results |-> found, next |-> 1]
                   ELSE GcpAfterUpdates(service.DB_AVAILABLE, found)]
    /\ UNCHANGED <<identities, graph, phase, last, connector, tasks, store, service, world>>

GcpRaised(r) ==
    [pc |-> "answered", results |-> r.results, next |-> 0, response |-> HTTPException(500)]

\* the update_one of the identity the loop of sync_gcp stands at returns or
\* raises
GcpUpdateOne ==
    /\ requests.sync_gcp.pc = "update_one"
    /\ \E ok \in BOOLEAN :
          /\ MayFail(ok)
          /\ store' = Failed(IF ok
                             THEN [store EXCEPT !.unified_identities =
                                      UpsertIdentity(@, CONNECTOR_FILTER,
                                          requests.sync_gcp.results[requests.sync_gcp.next])]
                             ELSE store, ok)
          /\ requests' = [requests EXCEPT !.sync_gcp =
                             IF ~ok THEN GcpRaised(@)
                             ELSE IF @.next < Len(@.results) THEN [@ EXCEPT !.next = @ + 1]
                             ELSE GcpAfterUpdates(TRUE, @.results)]
    /\ UNCHANGED <<identities, graph, phase, last, connector, tasks, service, world>>

\* the update_one of the provider config of sync_gcp returns or raises
GcpUpdateConfig ==
    /\ requests.sync_gcp.pc = "update_config"
    /\ \E ok \in BOOLEAN :
          /\ MayFail(ok)
          /\ store' = Failed(IF ok
                             THEN [store EXCEPT !.provider_configs =
                                      GcpConfigUpsert(@, world.env.GCP_PROJECT_ID, SyncUtcNow)]
                             ELSE store, ok)
          /\ requests' = [requests EXCEPT !.sync_gcp =
                             IF ok THEN [@ EXCEPT !.pc = "insert_history"] ELSE GcpRaised(@)]
    /\ UNCHANGED <<identities, graph, phase, last, connector, tasks, service, world>>

\* the insert_one of the sync snapshot returns or raises, and sync_gcp
\* answers
GcpInsertHistory ==
    /\ requests.sync_gcp.pc = "insert_history"
    /\ \E ok \in BOOLEAN :
          /\ MayFail(ok)
          /\ store' = Failed(IF ok
                             THEN [store EXCEPT !.sync_history =
                                      Append(@, HistoryEntry("gcp", requests.sync_gcp.results))]
                             ELSE store, ok)
          /\ requests' = [requests EXCEPT !.sync_gcp =
                             IF ok
                             THEN [pc |-> "answered", results |-> @.results, next |-> 0,
                                   response |-> Synced(Len(@.results))]
                             ELSE GcpRaised(@)]
    /\ UNCHANGED <<identities, graph, phase, last, connector, tasks, service, world>>

NextSync ==
    \/ SyncAll
    \/ ConfigsRead
    \/ \E k \in 1..Len(tasks) : TaskWaits(k)
    \/ \E k \in 1..Len(tasks) : TaskFetches(k)
    \/ \E k \in 1..Len(tasks) : TaskSleeps(k)
    \/ \E k \in 1..Len(tasks) : UpdateOne(k)
    \/ \E k \in 1..Len(tasks) : InsertHistory(k)
    \/ \E k \in 1..Len(tasks) : UpdateLastSync(k)
    \/ GatherReturns
    \/ EmailsRead
    \/ DemoUpdateOne
    \/ GetAllIdentities
    \/ CountDocumentsDone
    \/ ToListDone
    \/ SyncGcp
    \/ GcpUpdateOne
    \/ GcpUpdateConfig
    \/ GcpInsertHistory

SpecSync == InitSync /\ [][NextSync]_vars

(***************************************************************************)
(* Properties of the graph and of its queries.                             *)
(***************************************************************************)
Asked(op) == phase = "answered" /\ last.op = op
Known(id) == id \in DOMAIN graph.nodes

\* the identities joined to id by a direct edge between two identity nodes
DirectNeighbors(id) ==
    {e[1] : e \in {x \in Range(DictGet(graph.adjacency, id)) : ~IsVirtual(x[1])}}

ReportedDepths(result, id) == {result[k].depth : k \in {j \in 1..Len(result) : result[j].id = id}}

\* C1: the adjacency of a built graph is symmetric: every entry (b, rel, w) in
\* the list of node a has an entry (a, rel, w) in the list of node b, whether
\* a and b are identities or virtual vgroup:/vrole: nodes.
C1_GraphSymmetry ==
    \A a \in DOMAIN graph.adjacency :
        \A e \in Range(graph.adjacency[a]) :
            /\ e[1] \in DOMAIN graph.adjacency
            /\ <<a, e[2], e[3]>> \in Range(graph.adjacency[e[1]])

C1_Witness ==
    /\ phase = "built"
    /\ \E a \in DOMAIN graph.nodes :
          /\ \E e \in Range(DictGet(graph.adjacency, a)) : IsVirtual(e[1])
          /\ \E e \in Range(DictGet(graph.adjacency, a)) : e[1] \in DOMAIN graph.nodes /\ e[1] # a

\* C2: with max_depth >= 1, get_connected_identities reports no identity at a
\* depth greater than max_depth, and every other identity joined to the start
\* by a direct edge between identities is reported, at depth 1 only.
C2_DepthMonotonicity ==
    (Asked("get_connected_identities") /\ last.max_depth >= 1 /\ Known(last.id)) =>
        /\ \A k \in 1..Len(last.result) : last.result[k].depth <= last.max_depth
        /\ \A b \in DirectNeighbors(last.id) \ {last.id} :
              ReportedDepths(last.result, b) = {1}

C2_Witness ==
    /\ Asked("get_connected_identities") /\ last.max_depth >= 1 /\ Known(last.id)
    /\ DirectNeighbors(last.id) \ {last.id} # {}
    /\ \E k \in 1..Len(last.result) :
          last.result[k].depth = last.max_depth /\ last.max_depth >= 2

\* two identities whose only relation is a group they are both members of
SharesOnlyGroup(a, b) ==
    LET ia == graph.nodes[a]
        ib == graph.nodes[b]
        Sensitive(i) == {r \in Range(i.roles) : _get_role_weight(r) >= ROLE_EDGE_THRESHOLD}
    IN  /\ a # b
        /\ Range(ia.groupMembership) \cap Range(ib.groupMembership) # {}
        /\ lower(ia.email) # lower(ib.email)
        /\ b \notin Range(ia.linkedAccounts)
        /\ a \notin Range(ib.linkedAccounts)
        /\ Sensitive(ia) \cap Sensitive(ib) = {}

\* C3: with max_depth >= 1, an identity that shares only a group with the
\* start identity is reported at depth 1, whatever else the graph contains.
C3_GroupHop ==
    (Asked("get_connected_identities") /\ last.max_depth >= 1 /\ Known(last.id)) =>
        \A b \in DOMAIN graph.nodes :
            SharesOnlyGroup(last.id, b) => ReportedDepths(last.result, b) = {1}

\* C4: calculate_blast_radius returns an integer blastRadius in 0..100, and 0
\* for an identity that has no edges.
C4_BlastBounded ==
    Asked("calculate_blast_radius") =>
        /\ last.result.blastRadius \in 0..100
        /\ (Known(last.id) /\ DictGet(graph.adjacency, last.id) = <<>>) =>
              last.result.blastRadius = 0

C4_Witness ==
    /\ Asked("calculate_blast_radius")
    /\ last.result.blastRadius = 100
    /\ last.result.affectedIdentities = MaxCrowd - 1

\* C5: find_admin_takeover_paths returns the empty list for an identity that
\* has a role containing "admin" in any letter case.
C5_AdminSelfExclusion ==
    (Asked("find_admin_takeover_paths") /\ Known(last.id)
        /\ HasAdminRole(graph.nodes[last.id].roles)) => last.result = <<>>

C5_Witness ==
    /\ Asked("find_admin_takeover_paths") /\ Known(last.id)
    /\ last.result = <<>>
    /\ \E r \in Range(graph.nodes[last.id].roles) :
          Contains("admin", lower(r)) /\ ~Contains("admin", r)
    /\ \E b \in DirectNeighbors(last.id) \ {last.id} : HasAdminRole(graph.nodes[b].roles)

\* C6: for an id that names no identity of the graph, the three list queries
\* return the empty list and calculate_blast_radius returns blast radius 0
\* with 0 affected identities.
C6_UnknownIdentity ==
    (phase = "answered" /\ ~Known(last.id)) =>
        /\ last.op \in {"get_connected_identities", "find_admin_takeover_paths",
                        "detect_lateral_movement_paths"} => last.result = <<>>
        /\ last.op = "calculate_blast_radius" =>
              /\ last.result.blastRadius = 0
              /\ last.result.affectedIdentities = 0

C6_Witness ==
    /\ Asked("get_connected_identities") /\ ~Known(last.id) /\ last.max_depth >= 1
    /\ DictGet(graph.adjacency, last.id) # <<>>
    /\ last.result = <<>>

OutHops(g, a) ==
    {Hop(g, e[1], e[2], e[3]) :
        e \in {x \in Range(DictGet(g.adjacency, a)) : x[1] \in DOMAIN g.nodes}}

PathIds(p) == {p[k].id : k \in 1..Len(p)}

ExtendPaths(g, start, paths) ==
    UNION {{Append(p, h) : h \in {x \in OutHops(g, p[Len(p)].id) :
                                      x.id \notin PathIds(p) \cup {start}}} : p \in paths}

RECURSIVE SimplePaths(_, _, _)
SimplePaths(g, start, max_hops) ==
    IF max_hops = 1
    THEN {<<h>> : h \in {x \in OutHops(g, start) : x.id # start}}
    ELSE LET shorter == SimplePaths(g, start, max_hops - 1)
         IN  shorter \cup ExtendPaths(g, start, shorter)

AdminPaths(g, start) ==
    {p \in SimplePaths(g, start, ADMIN_PATH_MAX_DEPTH) :
        HasAdminRole(g.nodes[p[Len(p)].id].roles)}

\* C10: for a start identity without an admin role, find_admin_takeover_paths
\* returns exactly the simple paths of 1 to 4 hops from the start to an
\* identity with an admin role.
C10_AllAdminPaths ==
    (Asked("find_admin_takeover_paths") /\ Known(last.id)
        /\ ~HasAdminRole(graph.nodes[last.id].roles)) =>
        Range(last.result) = AdminPaths(graph, last.id)

(***************************************************************************)
(* Properties of the scoring engines.                                      *)
(***************************************************************************)
\* the points of each factor, by the reason it reports (spec section 4.3)
ReasonPoints ==
    << <<"No MFA enabled", 30>>,
       <<"Account has administrative privileges", 25>>,
       <<"Orphaned account", 20>>,
       <<"Account dormant for", 15>>,
       <<"Account inactive for", 10>>,
       <<"Duplicate identity found", 10>>,
       <<"MFA status is inconsistent", 15>>,
       <<"Potential role drift", 15>>,
       <<"SaaS identity (Okta) not linked", 15>>,
       <<"Suspiciously high number of assigned roles", 20>>,
       <<"Excessive group memberships", 10>>,
       <<"Direct production environment access", 20>>,
       <<"Administrative rights on potentially public repositories", 15>>,
       <<"Stale security credentials", 10>>,
       <<"Likely shared or service account", 20>> >>

\* the factors a list of reasons reports: the table rows a reason starts with
ReportedFactors(factors, row) ==
    {k \in 1..Len(factors) : StartsWith(factors[k], ReasonPoints[row][1])}

PointsReported(factors) ==
    SumSeq([row \in 1..Len(ReasonPoints) |->
               ReasonPoints[row][2] * Cardinality(ReportedFactors(factors, row))])

\* C7: totalRiskScore is min(100, sum of the points of the triggered factors)
\* and within 0..100; each triggered factor reports exactly one reason; an
\* identity without MFA and with an admin role reports "No MFA enabled" and
\* "Account has administrative privileges" and scores at least 55.
C7_RiskScoreCapped ==
    Asked("calculate_risk_score") =>
        LET r == last.result
            i == last.identity
        IN  /\ r.totalRiskScore = Min(100, PointsReported(r.factors))
            /\ r.totalRiskScore \in 0..100
            /\ \A row \in 1..Len(ReasonPoints) :
                  Cardinality(ReportedFactors(r.factors, row)) <= 1
            /\ \A k \in 1..Len(r.factors) :
                  \E row \in 1..Len(ReasonPoints) : k \in ReportedFactors(r.factors, row)
            /\ (~i.mfaEnabled) <=> ("No MFA enabled" \in Range(r.factors))
            /\ HasAdminRole(i.roles) <=>
                  ("Account has administrative privileges" \in Range(r.factors))
            /\ (~i.mfaEnabled /\ HasAdminRole(i.roles)) => r.totalRiskScore >= 55

C7_Witness ==
    /\ Asked("calculate_risk_score")
    /\ ~last.identity.mfaEnabled /\ HasAdminRole(last.identity.roles)
    /\ PointsReported(last.result.factors) > 100
    /\ last.result.totalRiskScore = 100

\* the policies and weights as the specification states them (section 4.4)
StatedWeights ==
    << <<"least_privilege", 25>>, <<"zero_trust", 20>>, <<"mfa_enforcement", 25>>,
       <<"dormant_account", 15>>, <<"separation_of_duties", 15>> >>

WeightViolated(violated) ==
    SumSeq([k \in 1..Len(StatedWeights) |->
               IF StatedWeights[k][1] \in violated THEN StatedWeights[k][2] ELSE 0])

\* C8: compliance_score is 100 minus the summed weights of the distinct
\* policies violated, an integer within 0..100.
C8_ComplianceScore ==
    Asked("check_identity_compliance") =>
        LET r == last.result
            violated == {r.violations[k].policy : k \in 1..Len(r.violations)}
        IN  /\ violated \subseteq {StatedWeights[k][1] : k \in 1..Len(StatedWeights)}
            /\ r.compliance_score = 100 - WeightViolated(violated)
            /\ r.compliance_score \in 0..100

C8_Witness ==
    /\ Asked("check_identity_compliance")
    /\ last.result.violations_count = 5
    /\ last.result.compliance_score = 0

(***************************************************************************)
(* Properties of the blast radius, the risk distribution and the edges.    *)
(***************************************************************************)
\* raw * 10 as the fraction num / 1200, from the identities reached within
\* depth 3: the sum of 1/(depth+1), times (1 + 0.3 * admins reached), times
\* (1 + 0.15 * distinct providers reached)
RawTimesTen(reached) ==
    LET at(d) == Cardinality({k \in 1..Len(reached) : reached[k].depth = d})
        admins == Cardinality({k \in 1..Len(reached) :
                                  HasAdminRole(graph.nodes[reached[k].id].roles)})
        providers == Cardinality({reached[k].source : k \in 1..Len(reached)})
    IN  (6 * at(1) + 4 * at(2) + 3 * at(3)) * (10 + 3 * admins) * (100 + 15 * providers)

\* C11: for an identity of the graph, blastRadius is min(round(raw * 10), 100),
\* with raw computed from the identities reached within depth 3.
C11_BlastRounded ==
    (Asked("calculate_blast_radius") /\ Known(last.id)) =>
        last.result.blastRadius =
            Min(RoundHalfEven(RawTimesTen(get_connected_identities(graph, last.id, 3)),
                              1200), 100)

\* C12: get_risk_distribution returns four counts, one per risk bucket, that
\* place every identity of the graph in exactly one bucket and so sum to the
\* number of identities.
C12_RiskDistribution ==
    Asked("get_risk_distribution") =>
        /\ last.result.raised = None
        /\ \A b \in {"Critical", "High", "Medium", "Low"} :
              last.result.dist[b] =
                  Cardinality({n \in DOMAIN graph.nodes :
                                  RiskBucket(graph.nodes[n].riskScore) = b})

\* C13: every cross_provider edge has weight 0.8 and joins two identities
\* with the same email (case-insensitive) and different sources, and every
\* two identities with the same email and different sources are joined by a
\* cross_provider edge.
C13_CrossProvider ==
    (phase = "built") =>
        /\ \A e \in EdgeSet(graph) :
              e[3] = "cross_provider" =>
                  /\ e[4] = 800
                  /\ e[1] \in DOMAIN graph.nodes /\ e[2] \in DOMAIN graph.nodes
                  /\ lower(graph.nodes[e[1]].email) = lower(graph.nodes[e[2]].email)
                  /\ SourceName(graph.nodes[e[1]]) # SourceName(graph.nodes[e[2]])
        /\ \A a, b \in DOMAIN graph.nodes :
              (/\ a # b
               /\ lower(graph.nodes[a].email) = lower(graph.nodes[b].email)
               /\ SourceName(graph.nodes[a]) # SourceName(graph.nodes[b]))
                  => <<a, b, "cross_provider", 800>> \in EdgeSet(graph)

(***************************************************************************)
(* Properties of detect_lateral_movement_paths.                            *)
(***************************************************************************)
\* the identities reached within 4 hops of id that are pivot targets: their
\* provider differs from the provider of id or their riskScore exceeds 50
PivotTargets(id) ==
    LET reached == get_connected_identities(graph, id, 4) IN
    {c \in Range(reached) : c.source # SourceName(graph.nodes[id]) \/ c.riskScore > 50}

\* the sort order: critical entries first, then fewer hops first
SortsBefore(critA, hopsA, critB, hopsB) ==
    \/ critA /\ ~critB
    \/ critA = critB /\ hopsA < hopsB

\* C14: detect_lateral_movement_paths returns at most 15 entries and as many
\* as there are pivot targets up to 15; each entry is a pivot target with its
\* hop count, critical exactly when its riskScore is 80 or more; no entry
\* sorts before an earlier one (critical first, then by hops), and no pivot
\* target left out sorts before an entry.
C14_LateralPaths ==
    (Asked("detect_lateral_movement_paths") /\ Known(last.id)) =>
        LET r == last.result
            targets == PivotTargets(last.id)
            included == {r[k].to.id : k \in 1..Len(r)}
        IN  /\ Len(r) = Min(Cardinality(targets), 15)
            /\ Cardinality(included) = Len(r)
            /\ \A k \in 1..Len(r) :
                  /\ \E c \in targets :
                        c.id = r[k].to.id /\ c.depth = r[k].hops /\ c.riskScore = r[k].risk
                  /\ r[k].hops \in 1..4
                  /\ r[k].critical <=> (r[k].risk >= 80)
            /\ \A i, j \in 1..Len(r) :
                  i < j => ~SortsBefore(r[j].critical, r[j].hops, r[i].critical, r[i].hops)
            /\ \A c \in targets :
                  c.id \notin included =>
                      \A k \in 1..Len(r) :
                          ~SortsBefore(c.riskScore >= 80, c.depth, r[k].critical, r[k].hops)

C14_Witness ==
    /\ Asked("detect_lateral_movement_paths") /\ Known(last.id)
    /\ Cardinality(PivotTargets(last.id)) > 15
    /\ Len(last.result) = 15
    /\ \E i, j \in 1..15 :
          /\ last.result[i].critical /\ ~last.result[j].critical
          /\ last.result[i].hops > last.result[j].hops
    /\ \E i, j \in 1..15 :
          /\ ~last.result[i].critical /\ ~last.result[j].critical
          /\ last.result[i].hops < last.result[j].hops

(***************************************************************************)
(* Properties of the enhanced risk engine.                                 *)
(***************************************************************************)
\* the identities with an admin role that the blast radius of id reaches
AdminsReached(id) ==
    LET reached == get_connected_identities(graph, id, 3) IN
    {c.id : c \in {x \in Range(reached) : HasAdminRole(graph.nodes[x.id].roles)}}

\* some role of the identity has a weight of at least w thousandths
HasRoleWeight(roles, w) == \E r \in Range(roles) : _get_role_weight(r) >= w

\* C15: calculate_privilege_tier is critical if more than 3 admins are
\* reachable or the maximum role weight is >= 0.9; otherwise high if an admin
\* is reachable or the maximum weight is >= 0.6; otherwise medium if the
\* maximum weight is >= 0.3; otherwise low (no roles: maximum weight 0).
C15_PrivilegeTier ==
    Asked("calculate_privilege_tier") =>
        LET roles == graph.nodes[last.id].roles
            admins == Cardinality(AdminsReached(last.id))
        IN  last.result =
                IF admins > 3 \/ HasRoleWeight(roles, 900) THEN "critical"
                ELSE IF admins > 0 \/ HasRoleWeight(roles, 600) THEN "high"
                ELSE IF HasRoleWeight(roles, 300) THEN "medium"
                ELSE "low"

C15_Witness ==
    /\ Asked("calculate_privilege_tier")
    /\ last.result = "critical"
    /\ ~HasRoleWeight(graph.nodes[last.id].roles, 900)
    /\ Cardinality(AdminsReached(last.id)) = 4

\* the nodes within k edges of a node of S, virtual nodes counting as nodes
RECURSIVE WithinHops(_, _)
WithinHops(S, k) ==
    IF k = 0 THEN S
    ELSE LET near == WithinHops(S, k - 1)
         IN  near \cup {e[1] : e \in UNION {Range(DictGet(graph.adjacency, n)) : n \in near}}

\* the identities of the graph at distance 1..k from the nearest admin
IdentitiesNearAdmin(k) ==
    (WithinHops(AdminIds(graph), k) \ AdminIds(graph)) \cap DOMAIN graph.nodes

\* C16: highRiskPaths is the number of identities at distance 1 or 2 from the
\* nearest admin and totalPaths the number at distance 1 to 4; every identity
\* at such a distance is counted whatever its id is, and no virtual node is.
C16_BreachPaths ==
    Asked("get_breach_probability") =>
        /\ last.result.highRiskPaths = Cardinality(IdentitiesNearAdmin(2))
        /\ last.result.totalPaths = Cardinality(IdentitiesNearAdmin(4))

(***************************************************************************)
(* Properties of the remediation engine and of its agreement with the      *)
(* compliance and risk engines.                                            *)
(***************************************************************************)
\* the actions of a result that were built from the template of that name
ActionsOf(result, title) == {k \in 1..Len(result) : result[k].title = title}

\* the identities of the snapshot that have the email of identity; an
\* identity without an email has the email of no one
EmailSiblings(identity) ==
    {k \in 1..Len(identities) :
        /\ identity.email # ""
        /\ lower(identities[k].email) = lower(identity.email)}

\* C17: for an identity with source okta, generate_for_identity emits exactly
\* one link_identity action, of priority medium, if no identity with the same
\* email has source aws, azure or gcp, and no link_identity action otherwise.
C17_LinkIdentity ==
    (Asked("generate_for_identity") /\ last.identity.source = "okta") =>
        LET links == ActionsOf(last.result, "Link Orphaned SaaS Identity")
            has_cloud_sibling ==
                \E k \in EmailSiblings(last.identity) :
                    identities[k].source \in {"aws", "azure", "gcp"}
        IN  IF has_cloud_sibling THEN links = {}
            ELSE /\ Cardinality(links) = 1
                 /\ \A k \in links : last.result[k].priority_level = "medium"

C17_Witness ==
    /\ Asked("generate_for_identity") /\ last.identity.source = "okta"
    /\ Cardinality(ActionsOf(last.result, "Link Orphaned SaaS Identity")) = 1
    /\ Len(last.result) >= 2
    /\ \E k \in 1..Len(identities) :
          /\ identities[k].source \in {"aws", "azure", "gcp"}
          /\ lower(identities[k].email) # lower(last.identity.email)

\* C18: generate_for_identity emits a restrict_cross_cloud action, of priority
\* high, exactly when more than one of the cloud providers aws, azure and gcp
\* grants an admin role to an identity with the same email.
C18_RestrictCrossCloud ==
    Asked("generate_for_identity") =>
        LET restricts == ActionsOf(last.result, "Restrict Cross-Cloud Admin Access")
            admin_providers ==
                {identities[k].source :
                    k \in {j \in EmailSiblings(last.identity) :
                              /\ identities[j].source \in {"aws", "azure", "gcp"}
                              /\ HasAdminRole(identities[j].roles)}}
        IN  /\ (restricts # {}) <=> (Cardinality(admin_providers) > 1)
            /\ \A k \in restricts : last.result[k].priority_level = "high"

\* the dormant_account violations of a compliance result, by severity
DormantViolations(result, severity) ==
    {k \in 1..Len(result.violations) :
        /\ result.violations[k].policy = "dormant_account"
        /\ result.violations[k].severity = severity}

\* C19: for an identity with a lastLogin, more than 90 days inactive gives a
\* dormant_account violation of severity high and the dormancy risk factor
\* (+15); 31 to 90 days gives severity medium and the inactivity factor (+10);
\* 30 days or fewer gives no dormant_account violation and neither factor.
C19_DormancyThresholds ==
    (/\ phase = "answered"
     /\ last.op \in {"check_identity_compliance", "calculate_risk_score"}
     /\ last.identity.lastLogin # <<>>) =>
        LET days == UtcNow - last.identity.lastLogin[1]
            compliance == IF last.op = "check_identity_compliance" THEN last.result
                          ELSE check_identity_compliance(identities, last.identity)
            risk == IF last.op = "calculate_risk_score" THEN last.result
                    ELSE calculate_risk_score(identities, last.identity)
            high == Cardinality(DormantViolations(compliance, "high"))
            medium == Cardinality(DormantViolations(compliance, "medium"))
            dormant == Cardinality(ReportedFactors(risk.factors, 4))
            inactive == Cardinality(ReportedFactors(risk.factors, 5))
        IN  /\ ReasonPoints[4] = <<"Account dormant for", 15>>
            /\ ReasonPoints[5] = <<"Account inactive for", 10>>
            /\ <<high, medium, dormant, inactive>> =
                   IF days > 90 THEN <<1, 0, 1, 0>>
                   ELSE IF days > 30 THEN <<0, 1, 0, 1>>
                   ELSE <<0, 0, 0, 0>>

C19_Witness ==
    /\ Asked("check_identity_compliance")
    /\ last.identity.lastLogin = <<UtcNow - 91>>
    /\ DormantViolations(last.result, "high") # {}
    /\ \E k \in 1..Len(identities) : identities[k].lastLogin = <<UtcNow - 90>>

\* C20: check_identity_compliance reports a separation_of_duties violation
\* for an identity if and only if generate_for_identity emits a separate_toxic
\* action for it, each at most once; both report it for roles that contain a
\* dbadmin or dba keyword together with a developer or engineer keyword.
C20_ToxicAgreement ==
    (/\ phase = "answered"
     /\ last.op \in {"check_identity_compliance", "generate_for_identity"}) =>
        LET compliance == IF last.op = "check_identity_compliance" THEN last.result
                          ELSE check_identity_compliance(identities, last.identity)
            actions == IF last.op = "generate_for_identity" THEN last.result
                       ELSE generate_for_identity(identities, last.identity)
            violations == {k \in 1..Len(compliance.violations) :
                              compliance.violations[k].policy = "separation_of_duties"}
            separations == ActionsOf(actions, "Separate Toxic Role Combinations")
            roles == {lower(r) : r \in Range(last.identity.roles)}
        IN  /\ Cardinality(violations) <= 1
            /\ Cardinality(separations) <= 1
            /\ (violations # {}) <=> (separations # {})
            /\ (/\ \E r \in roles : Contains("dbadmin", r) \/ Contains("dba", r)
                /\ \E r \in roles : Contains("developer", r) \/ Contains("engineer", r))
                  => (violations # {} /\ separations # {})

C20_Witness ==
    /\ Asked("generate_for_identity")
    /\ ActionsOf(last.result, "Separate Toxic Role Combinations") # {}
    /\ Range(last.identity.roles) = {"dbadmin", "developer"}

\* the identity holds a role whose name contains an admin keyword
IsAdminIdentity(identity) ==
    \E r \in Range(identity.roles) :
        \E kw \in {"admin", "owner", "superadmin", "root", "globaladmin"} :
            Contains(kw, lower(r))

\* the (riskScore, isAdmin) rule as the specification states it
RulePriority(riskScore, isAdmin) ==
    IF riskScore >= 80 \/ (isAdmin /\ riskScore >= 50) THEN "critical"
    ELSE IF riskScore >= 60 THEN "high"
    ELSE IF riskScore >= 30 THEN "medium"
    ELSE "low"

\* C21 as stated: every action produced by generate_for_identity carries the
\* priority given by the (riskScore, isAdmin) rule.
C21_EveryActionByRule ==
    Asked("generate_for_identity") =>
        \A k \in 1..Len(last.result) :
            last.result[k].priority_level =
                RulePriority(last.identity.riskScore, IsAdminIdentity(last.identity))

\* C21, amended: the remove_unused_roles and reduce_privilege actions carry
\* the priority given by the (riskScore, isAdmin) rule; enable_mfa is critical
\* for an admin and high otherwise, disable_dormant is high for an admin and
\* medium otherwise, separate_toxic and restrict_cross_cloud are high and
\* link_identity is medium, whatever the risk score.
C21_PriorityByAction ==
    Asked("generate_for_identity") =>
        LET admin == IsAdminIdentity(last.identity)
            byRule == RulePriority(last.identity.riskScore, admin)
            expected(title) ==
                CASE title = "Remove Unused / Excessive Roles" -> byRule
                  [] title = "Reduce Privilege Scope" -> byRule
                  [] title = "Enable Multi-Factor Authentication" ->
                        IF admin THEN "critical" ELSE "high"
                  [] title = "Disable Dormant Account" ->
                        IF admin THEN "high" ELSE "medium"
                  [] title = "Separate Toxic Role Combinations" -> "high"
                  [] title = "Restrict Cross-Cloud Admin Access" -> "high"
                  [] title = "Link Orphaned SaaS Identity" -> "medium"
                  [] OTHER -> "none"
        IN  \A k \in 1..Len(last.result) :
                last.result[k].priority_level = expected(last.result[k].title)

\* an identity of risk score below 60 that is not an admin gets a rule-based
\* action next to a fixed-priority one, and an admin gets reduce_privilege
C21_Witness ==
    /\ Asked("generate_for_identity")
    /\ \/ /\ ActionsOf(last.result, "Remove Unused / Excessive Roles") # {}
          /\ ~IsAdminIdentity(last.identity)
          /\ last.identity.riskScore \in 30..59
       \/ /\ ActionsOf(last.result, "Reduce Privilege Scope") # {}
          /\ last.identity.riskScore \in 50..79

\* the priority levels, highest first, and the place of a level among them
PriorityLevels == <<"critical", "high", "medium", "low">>
LevelOf(action) == CHOOSE n \in 1..4 : PriorityLevels[n] = action.priority_level

\* every action the engine generates for the identities of the snapshot
Generated ==
    Flatten([k \in 1..Len(identities) |->
                generate_for_identity(identities, identities[k])])

\* how many times the action a occurs in the list s
Occurrences(s, a) == Cardinality({k \in 1..Len(s) : s[k] = a})

\* C22: generate_all returns in actions at most 50 actions ordered critical,
\* high, medium, low, and no generated action left out of that list has a
\* strictly higher priority than one that is in it; total_actions and the
\* priority breakdown count every generated action, and
\* estimated_total_risk_reduction is min(sum of the per-action estimates, 100).
C22_GenerateAll ==
    Asked("generate_all") =>
        LET r == last.result
            shown == r.actions
            all == Generated
            left_out == {a \in Range(all) : Occurrences(all, a) > Occurrences(shown, a)}
        IN  /\ Len(shown) = Min(Len(all), 50)
            /\ \A a \in Range(shown) : Occurrences(shown, a) <= Occurrences(all, a)
            /\ \A i, j \in 1..Len(shown) : i < j => LevelOf(shown[i]) <= LevelOf(shown[j])
            /\ \A a \in left_out : \A b \in Range(shown) : LevelOf(a) >= LevelOf(b)
            /\ r.total_actions = Len(all)
            /\ \A n \in 1..4 :
                  r.priority_breakdown[PriorityLevels[n]] =
                      Cardinality({k \in 1..Len(all) : LevelOf(all[k]) = n})
            /\ r.estimated_total_risk_reduction =
                  Min(SumSeq([k \in 1..Len(all) |-> all[k].estimated_risk_reduction]), 100)

\* more than 50 actions of all four priorities are generated, and some of
\* them do not fit into the response
C22_Witness ==
    /\ Asked("generate_all")
    /\ last.result.total_actions > 50
    /\ Len(last.result.actions) = 50
    /\ \A p \in Range(PriorityLevels) : last.result.priority_breakdown[p] > 0
    /\ last.result.estimated_total_risk_reduction = 100

\* a snapshot whose actions all fit and whose estimates sum to less than 100
C22_WitnessSmall ==
    /\ Asked("generate_all")
    /\ last.result.total_actions \in 2..49
    /\ last.result.estimated_total_risk_reduction < 100

(***************************************************************************)
(* Properties of process_all_enhanced.                                     *)
(***************************************************************************)
RawFields ==
    {"id", "email", "source", "provider", "roles", "mfaEnabled", "lastLogin",
     "isActive", "riskScore", "linkedAccounts", "groupMembership"}

SameRaw(a, b) == \A f \in RawFields : a[f] = b[f]

\* C23: process_all_enhanced changes only the derived fields privilegeTier,
\* exposureLevel, attackPathCount, blastRadius and cloudAccounts of each
\* identity: the raw fields of every identity are the same after the call as
\* before, and so is the graph (its nodes, the raw fields of the identity of
\* each node, its adjacency lists and its email index).
C23_DerivedFieldsOnly ==
    Asked("process_all_enhanced") =>
        LET before == last.identitiesBefore
            g == last.graphBefore
        IN  /\ Len(identities) = Len(before)
            /\ \A k \in 1..Len(before) :
                  /\ SameRaw(identities[k], before[k])
                  /\ DOMAIN identities[k] = DOMAIN before[k]
                  /\ identities[k].permissions = before[k].permissions
            /\ DOMAIN graph.nodes = DOMAIN g.nodes
            /\ \A n \in DOMAIN g.nodes : SameRaw(graph.nodes[n], g.nodes[n])
            /\ graph.adjacency = g.adjacency
            /\ graph._email_to_ids = g._email_to_ids

\* the call has given four derived fields of an identity a new value, and an
\* identity a list of two cloud accounts
C23_Witness ==
    /\ Asked("process_all_enhanced")
    /\ Len(identities) >= 2
    /\ \E k \in 1..Len(identities) :
          /\ identities[k].privilegeTier # last.identitiesBefore[k].privilegeTier
          /\ identities[k].exposureLevel # last.identitiesBefore[k].exposureLevel
          /\ identities[k].attackPathCount # last.identitiesBefore[k].attackPathCount
          /\ identities[k].blastRadius # last.identitiesBefore[k].blastRadius
          /\ graph.nodes[identities[k].id] = identities[k]
    /\ \E k \in 1..Len(identities) : Len(identities[k].cloudAccounts) = 2

(***************************************************************************)
(* Distances in identity-to-identity hops.                                 *)
(***************************************************************************)
\* the identities one hop away from a: joined to it by an edge, or members
\* of a vgroup:/vrole: node that a is joined to
HopNeighbors(a) ==
    LET next(n) == {e[1] : e \in Range(DictGet(graph.adjacency, n))}
        virtual == {n \in next(a) : IsVirtual(n)}
    IN  (next(a) \cup UNION {next(v) : v \in virtual}) \cap DOMAIN graph.nodes

\* the identities at most k hops away from one of S
RECURSIVE HopBall(_, _)
HopBall(S, k) ==
    IF k = 0 THEN S
    ELSE LET near == HopBall(S, k - 1)
         IN  near \cup UNION {HopNeighbors(a) : a \in near}

\* the shortest distance from a to b, for b in HopBall({a}, bound)
HopDistance(a, b, bound) ==
    CHOOSE d \in 0..bound : b \in HopBall({a}, d) /\ \A e \in 0..(d - 1) : b \notin HopBall({a}, e)

\* C28: get_connected_identities returns exactly the identities whose
\* shortest distance from the start, in identity-to-identity hops with a hop
\* through a vgroup:/vrole: node being free, is between 1 and max_depth, each
\* exactly once and with that shortest distance as its depth.
C28_ShortestDistance ==
    (Asked("get_connected_identities") /\ Known(last.id)) =>
        LET reach == HopBall({last.id}, last.max_depth) \ {last.id}
        IN  /\ {last.result[k].id : k \in 1..Len(last.result)} = reach
            /\ Len(last.result) = Cardinality(reach)
            /\ \A k \in 1..Len(last.result) :
                  last.result[k].depth =
                      HopDistance(last.id, last.result[k].id, last.max_depth)


\* C29: the two admin-reachability analyses agree: for an identity without
\* an admin role, if calculate_blast_radius reports adminReachable >= 1 then
\* find_admin_takeover_paths returns at least one path for that identity.
C29_AdminAnalysesAgree ==
    (Asked("calculate_blast_radius") /\ Known(last.id)
        /\ ~HasAdminRole(graph.nodes[last.id].roles)
        /\ last.result.adminReachable >= 1) =>
        find_admin_takeover_paths(graph, last.id) # <<>>


\* the policy names of spec section 4.4
PolicyNames ==
    {"least_privilege", "zero_trust", "mfa_enforcement", "dormant_account",
     "separation_of_duties"}

\* C30: in every result of check_identity_compliance the five policies are
\* partitioned between violations and passed_policies: each policy appears
\* exactly once, as one violation or as one passed entry, so
\* violations_count + number of passed policies = total_checks = 5.
C30_PolicyPartition ==
    Asked("check_identity_compliance") =>
        LET r == last.result
            violated(p) == Cardinality({k \in 1..Len(r.violations) :
                                           r.violations[k].policy = p})
            passed(p) == Cardinality({k \in 1..Len(r.passed_policies) :
                                         r.passed_policies[k] = p})
        IN  /\ \A p \in PolicyNames : violated(p) + passed(p) = 1
            /\ \A k \in 1..Len(r.violations) : r.violations[k].policy \in PolicyNames
            /\ Range(r.passed_policies) \subseteq PolicyNames
            /\ r.violations_count = Len(r.violations)
            /\ r.violations_count + Len(r.passed_policies) = r.total_checks
            /\ r.total_checks = 5

C30_Witness ==
    /\ Asked("check_identity_compliance")
    /\ last.result.violations_count = 2
    /\ Len(last.result.passed_policies) = 3
    /\ \E k \in 1..2 : last.result.violations[k].policy = "dormant_account"

(***************************************************************************)
(* Properties of the connectors and of the sync service.                   *)
(***************************************************************************)
StatedWaits == <<Sleep("backoff", 1000), Sleep("backoff", 2000)>>

\* the sync stands at an await of a pass of its loop
InPass == connector.pc = "wait" \/ AwaitsFetch(connector)

\* C24: BaseConnector.sync makes at most 3 fetch attempts, returns the
\* normalized identities of the first attempt that succeeds without
\* attempting again, waits 1 second and then 2 seconds between failed
\* attempts (no wait after the last), and raises the error to its caller only
\* after the third consecutive failure.
C24_RetryWithBackoff ==
    LET c == connector
        made == Len(last.fetched)
        failed(k) == PassFails(c.source, world.env, last.fetched[k])
    IN  /\ made <= 3
        /\ \A k \in 1..(made - 1) : failed(k)
        /\ c.pc = "returned" <=> (made >= 1 /\ ~failed(made))
        /\ c.pc = "returned" =>
              c.normalized_identities =
                  [k \in 1..Len(last.fetched[made].raw_identities) |->
                      normalize(c.source, world.env, last.fetched[made].raw_identities[k])]
        /\ c.pc = "raised" <=> (made = 3 /\ failed(3))
        /\ c.pc = "sleeping" => (made \in 1..2 /\ failed(made))
        /\ InPass => made < 3
        \* one wait after each failed attempt but the third, none after a success
        /\ last.slept = SubSeq(StatedWaits, 1, IF InPass THEN made ELSE made - 1)

C24_Witness ==
    /\ connector.pc = "raised"
    /\ Len(last.fetched) = 3
    /\ last.slept = StatedWaits
    /\ ~last.fetched[3].raised

\* C25: when normalize fails on one raw record of a fetched batch, sync skips
\* that record and still returns the normalized identities of all the other
\* records of the batch.
C25_MalformedSkipped ==
    LET c == connector
        made == Len(last.fetched)
    IN  (made >= 1 /\ ~InPass /\ ~last.fetched[made].raised) =>
            LET normalized == NormalizeAll(c.source, world.env,
                                           last.fetched[made].raw_identities) IN
            /\ c.pc = "returned"
            /\ c.normalized_identities =
                   SelectSeq(normalized, LAMBDA identity : ~IsError(identity))

\* C26: get_all_identities returns items = [] and total = 0 whenever the
\* store is flagged unavailable or one of the store operations of the query
\* raises, whatever the search, source, risk-level, skip and limit arguments.
C26_DegradesToEmpty ==
    LET call == requests.get_all_identities IN
    (call.pc = "answered" /\ (~service.DB_AVAILABLE \/ call.fault # "none")) =>
        call.result = [items |-> <<>>, total |-> 0]

C26_Witness ==
    LET call == requests.get_all_identities IN
    /\ call.pc = "answered"
    /\ service.DB_AVAILABLE
    /\ call.fault = "to_list"
    /\ call.args.search # None
    /\ call.args.risk_level = "Critical"
    /\ call.total > 0
    /\ call.result = [items |-> <<>>, total |-> 0]

\* the connectors of sync_all whose _sync_connector ran to its return
Succeeded == {k \in 1..Len(tasks) : tasks[k].completed}

Stored(identity) ==
    \E k \in 1..Len(store.unified_identities) : store.unified_identities[k] = identity

\* what sync_all owes its connectors once it has ended: a connector whose
\* sync failed contributed 0, and every identity of every connector that
\* succeeded is in the store and counted
ConnectorsIndependent ==
    /\ Len(service.results) = Len(tasks)
    /\ \A k \in 1..Len(tasks) :
          /\ tasks[k].raised => service.results[k] = 0
          /\ k \in Succeeded =>
                /\ service.results[k] = Len(tasks[k].identities)
                /\ service.DB_AVAILABLE =>
                      \A i \in 1..Len(tasks[k].identities) : Stored(tasks[k].identities[i])
          /\ k \notin Succeeded => service.results[k] = 0

\* the sum of the identity counts of the connectors that succeeded plus the
\* number of demo identities injected
StatedTotal ==
    SumSeq([k \in 1..Len(tasks) |-> IF k \in Succeeded THEN Len(tasks[k].identities) ELSE 0])
    + Len(service.injected)

====
